---- MODULE Spec2Model ----
(***************************************************************************)
(* Evidence pipeline of whatsapp-unwrapped: conversation chunking          *)
(* (llm/evidence/chunking.py), evidence gathering                          *)
(* (llm/evidence/gathering.py) and the orchestrator's fallback chain       *)
(* (backend/llm/orchestrator.py).                                          *)
(*                                                                         *)
(* Strings are modelled by their length in characters: the only thing the  *)
(* chunker reads of a text is len(text).  Indices are 0-based as in the    *)
(* Python source; a TLA+ sequence s holds index i at s[i + 1].             *)
(***************************************************************************)
EXTENDS Integers, Sequences, FiniteSets, TLC

VARIABLES
    \* chunk_conversation
    conversation,      \* conversation.messages
    target_tokens,     \* parameter target_tokens
    overlap_tokens,    \* parameter overlap_tokens
    chunks,            \* the list of chunks built so far / returned
    current_start,     \* loop variable current_start
    cpc,               \* position in chunk_conversation
    \* gather_all_evidence
    gchunks,           \* parameter chunks: the start and end index of each chunk
    max_workers,       \* parameter max_workers
    task,              \* the extraction of each chunk: where it stands, its ChunkResult
    results,           \* _gather_parallel.results, a dict: its entries in insertion order
    completed_count,   \* number of progress calls made so far
    total_input_tokens,\* the running token total (input and output move together)
    packets,           \* the list of packets built so far / returned
    gpc,               \* position in gather_all_evidence
    \* generate_unwrapped_with_fallback
    offline,           \* parameter offline
    api_key,           \* whether the api_key argument holds a key
    env_key,           \* whether the provider's environment variable holds a key
    provider,          \* parameter provider
    ppc,               \* position in the end-to-end call
    evidence,          \* generate_unwrapped.evidence, None before aggregation
    attempt,           \* generate_awards.attempt
    calls,             \* external calls made so far, per call site
    incidents,         \* the calls that failed so far: <<call site, outcome>>
    evidence_error,    \* _generate_without_evidence.evidence_error
    result,            \* the UnwrappedResult returned, None before the return
    raised,            \* the exception that left the end-to-end call, "none" if none
    \* aggregate_evidence, one category at a time
    category,          \* the category aggregated
    apackets,          \* per packet, the items it holds in the category
    items_with_idx,    \* the (chunk_idx, item) list of the category
    sample_i,          \* _temporal_sample: the loop index i
    sampled,           \* _temporal_sample: result
    aggregated,        \* the category of the ConversationEvidence returned
    apc,               \* position in aggregate_evidence
    \* filter_evidence_by_quality
    fevidence,         \* parameter evidence: per category, its items
    filtered,          \* the ConversationEvidence returned, None before the return
    judge_calls,       \* calls of the judge made so far
    judge_failures,    \* calls of the judge that raised
    judge_data,        \* the data of the judge's last parsed response, None before it
    fpc,               \* position in filter_evidence_by_quality
    \* generate_awards
    participants,      \* parameter participants
    awards,            \* generate_awards.awards, unbound before the first parse
    ga_attempt,        \* generate_awards.attempt
    ga_passes,         \* the passes of the loop made so far: prompt, outcome, parse
    ga_returned,       \* the awards returned, None before the return
    ga_raised,         \* the text of the SynthesisError raised, "none" if none
    ga_pc,             \* position in generate_awards
    \* _create_pattern_awards
    pa_patterns,       \* parameter patterns: the person of each pattern
    pa_participants,   \* parameter participants
    pa_awards,         \* _create_pattern_awards.awards / the list returned
    awards_per_person, \* _create_pattern_awards.awards_per_person
    pa_i,              \* patterns the loop has gone through
    pa_pc,             \* position in _create_pattern_awards
    \* gather_evidence_from_chunk, the error texts spelled out
    ex_calls,          \* the calls of provider.complete_json made so far
    ex_result,         \* gather_evidence_from_chunk.result, None before the first attempt
    ex_pc,             \* position in gather_evidence_from_chunk
    \* _gather_parallel, thread by thread
    pool_workers,      \* parameter max_workers
    worker,            \* per chunk, where the call of process_chunk stands
    provider_client,   \* provider._client: None (0), or the client made for that chunk
    writes,            \* the writes to shared state made since the pool started
    pool_counts,       \* total_input_tokens (with total_output_tokens) and completed_count
    main_pc,           \* position of the main thread in the as_completed loop
    main_idx,          \* the loop variable idx
    \* generate_unwrapped_with_fallback as its progress callback and its token totals see it
    run_offline,       \* parameter offline
    run_key,           \* whether api_key or the environment holds a key
    run_n,             \* len(chunks)
    run_i,             \* chunks whose extraction has returned
    run_items,         \* evidence items gathered so far; -1 once a packet holds a wrongly typed field
    run_attempt,       \* generate_awards.attempt
    run_events,        \* the stages of the ProgressUpdates handed to the callback so far
    run_usage,         \* usage of the external calls that produced a response (input and output move together)
    run_counted,       \* generate_unwrapped.total_input_tokens
    run_synth,         \* generate_awards.total_input_tokens
    run_result,        \* the UnwrappedResult returned, None before the return
    run_shadow,        \* what the call ends in when the callback raises at one of its invocations, None when none was picked
    run_pc             \* position in the end-to-end call

chunkVars == <<conversation, target_tokens, overlap_tokens, chunks, current_start, cpc>>

gatherVars == <<gchunks, max_workers, task, results, completed_count,
                total_input_tokens, packets, gpc>>

pipeVars == <<offline, api_key, env_key, provider, ppc, evidence, attempt, calls,
              incidents, evidence_error, result, raised>>

aggVars == <<category, apackets, items_with_idx, sample_i, sampled, aggregated, apc>>

filterVars == <<fevidence, filtered, judge_calls, judge_failures, judge_data, fpc>>

synthVars == <<participants, awards, ga_attempt, ga_passes, ga_returned, ga_raised, ga_pc>>

\* the variables of the library functions modelled on their own
patternVars == <<pa_patterns, pa_participants, pa_awards, awards_per_person, pa_i, pa_pc>>

extractVars == <<ex_calls, ex_result, ex_pc>>

poolVars == <<pool_workers, worker, provider_client, writes, pool_counts, main_pc, main_idx>>

runVars == <<run_offline, run_key, run_n, run_i, run_items, run_attempt, run_events, run_usage, run_counted, run_synth, run_result, run_shadow, run_pc>>

libVars == <<aggVars, filterVars, synthVars, patternVars, extractVars, poolVars, runVars>>

\* what the actions of one library function leave alone
notAgg == <<chunkVars, gatherVars, pipeVars, filterVars, synthVars, patternVars, extractVars, poolVars, runVars>>
notFilter == <<chunkVars, gatherVars, pipeVars, aggVars, synthVars, patternVars, extractVars, poolVars, runVars>>
notSynth == <<chunkVars, gatherVars, pipeVars, aggVars, filterVars, patternVars, extractVars, poolVars, runVars>>
notPattern == <<chunkVars, gatherVars, pipeVars, aggVars, filterVars, synthVars, extractVars, poolVars, runVars>>
notExtract == <<chunkVars, gatherVars, pipeVars, aggVars, filterVars, synthVars, patternVars, poolVars, runVars>>
notPool == <<chunkVars, gatherVars, pipeVars, aggVars, filterVars, synthVars, patternVars, extractVars, runVars>>
notRun == <<chunkVars, gatherVars, pipeVars, aggVars, filterVars, synthVars, patternVars, extractVars, poolVars>>

vars == <<chunkVars, gatherVars, pipeVars, libVars>>

(***************************************************************************)
(* Bounds of the model.                                                    *)
(***************************************************************************)
MaxMsgs == 4

\* lengths of message texts: short ones, and one beyond the 500 character cut
TextLens == {1, 18, 501}
\* length of a sender name
SenderLen == 2
\* budgets tried, in tokens; 8000 and 200 are the defaults of the source
TargetTokens == {1, 12, 17, 140, 8000}
OverlapTokens == {0, 6, 17, 200}

(***************************************************************************)
(* chunking.py                                                             *)
(***************************************************************************)
CHARS_PER_TOKEN == 4
MAX_TEXT_CHARS == 500

\* _estimate_tokens, on the length of the text
EstimateTokens(chars) == chars \div CHARS_PER_TOKEN

\* len(_format_single_message(m)): "[YYYY-MM-DD HH:MM] sender: text\n"
FormatSingleLen(m) ==
    LET senderLen == IF m.sender > 0 THEN m.sender ELSE 6   \* "System"
        textLen == IF m.text > MAX_TEXT_CHARS THEN MAX_TEXT_CHARS + 3 ELSE m.text
    IN  19 + senderLen + 2 + textLen + 1

\* messages = [m for m in conversation.messages if not m.is_system and m.sender]
UserMessages(conv) == SelectSeq(conv, LAMBDA m : ~m.is_system /\ m.sender > 0)

RECURSIVE SumFormat(_, _, _)
\* total length of the single-message texts of indices lo..hi (0-based)
SumFormat(msgs, lo, hi) ==
    IF lo > hi THEN 0
    ELSE FormatSingleLen(msgs[lo + 1]) + SumFormat(msgs, lo + 1, hi)

\* len(_format_messages(msgs)): the single texts joined by "\n"
FormatMessagesLen(msgs) ==
    IF Len(msgs) = 0 THEN 0
    ELSE SumFormat(msgs, 0, Len(msgs) - 1) + (Len(msgs) - 1)

RECURSIVE FillChunk(_, _, _, _, _)
\* the for loop of lines 88-99: from index i on, with `taken` the indices
\* appended so far and textLen = len(current_text); returns the chunk's
\* message indices and the length of its text
FillChunk(msgs, i, taken, textLen, target) ==
    IF i >= Len(msgs) THEN [messages |-> taken, text |-> textLen]
    ELSE LET new_text == textLen + FormatSingleLen(msgs[i + 1])
         IN  IF EstimateTokens(new_text) > target /\ taken # <<>>
             THEN [messages |-> taken, text |-> textLen]
             ELSE FillChunk(msgs, i + 1, Append(taken, i), new_text, target)

RECURSIVE BackUpLate(_, _, _, _, _, _)
\* BackUp with the budget tested on the text gathered before the message is
\* added, so that the message that breaks the budget is still taken
BackUpLate(msgs, i, lo, overlapLen, next_start, overlap) ==
    IF i < lo THEN next_start
    ELSE LET msg_text == FormatSingleLen(msgs[i + 1])
         IN  IF EstimateTokens(overlapLen) > overlap
             THEN next_start
             ELSE BackUpLate(msgs, i - 1, lo, overlapLen + msg_text, i, overlap)

RECURSIVE BackUp(_, _, _, _, _, _)
\* the for loop of lines 123-128: walking back from index i to lo, with
\* overlapLen = len(overlap_text) and next_start the value found so far
BackUp(msgs, i, lo, overlapLen, next_start, overlap) ==
    IF i < lo THEN next_start
    ELSE LET msg_text == FormatSingleLen(msgs[i + 1])
         IN  IF EstimateTokens(overlapLen + msg_text) > overlap
             THEN next_start
             ELSE BackUp(msgs, i - 1, lo, overlapLen + msg_text, i, overlap)

\* BuildChunk with current_end assigned before the budget test, so that
\* end_idx names the message the loop stopped at
BuildChunkEndAtBreak(msgs, start, target) ==
    LET filled == FillChunk(msgs, start, <<>>, 0, target)
        stop == start + Len(filled.messages)
    IN  [messages |-> filled.messages,
         start_idx |-> start,
         end_idx |-> IF stop < Len(msgs) THEN stop ELSE Len(msgs) - 1,
         token_estimate |-> EstimateTokens(filled.text)]

\* lines 84-115: the chunk that starts at `start`
BuildChunk(msgs, start, target) ==
    LET filled == FillChunk(msgs, start, <<>>, 0, target)
        \* lines 101-105: nothing fitted, take the single message anyway
        msgsOf == IF filled.messages = <<>> THEN <<start>> ELSE filled.messages
        textOf == IF filled.messages = <<>>
                  THEN FormatSingleLen(msgs[start + 1]) ELSE filled.text
    IN  [messages |-> msgsOf,
         start_idx |-> start,
         end_idx |-> IF filled.messages = <<>> THEN start
                     ELSE filled.messages[Len(filled.messages)],
         token_estimate |-> EstimateTokens(textOf)]

\* lines 117-128: where the next chunk starts, before the safety check
OverlapStart(msgs, chunk, overlap) ==
    LET next_start == chunk.end_idx + 1
    IN  IF next_start < Len(msgs) /\ overlap > 0
        THEN BackUp(msgs, chunk.end_idx, chunk.start_idx, 0, next_start, overlap)
        ELSE next_start

\* SafeStart without the safety check
SafeStartUnchecked(next_start, chunk) == next_start

\* lines 130-134: the safety check against a start that does not advance
SafeStart(next_start, chunk) ==
    IF next_start <= chunk.start_idx THEN chunk.end_idx + 1 ELSE next_start

Messages == UserMessages(conversation)

\* SingleChunk with range(len(messages) - 1) for the messages
SingleChunkShort(msgs, total_tokens) ==
    [messages |-> [k \in 1..(Len(msgs) - 1) |-> k - 1],
     start_idx |-> 0,
     end_idx |-> Len(msgs) - 1,
     token_estimate |-> total_tokens]

\* lines 67-75: the single chunk of a conversation within the target
SingleChunk(msgs, total_tokens) ==
    [messages |-> [k \in 1..Len(msgs) |-> k - 1],
     start_idx |-> 0,
     end_idx |-> Len(msgs) - 1,
     token_estimate |-> total_tokens]

\* lines 55-80: no user message, the single chunk, or the entry of the loop
ChunkEnter ==
    /\ cpc = "call"
    /\ LET total_tokens == EstimateTokens(FormatMessagesLen(Messages))
       IN  IF Len(Messages) = 0
           THEN /\ chunks' = <<>>
                /\ cpc' = "returned"
           ELSE IF total_tokens <= target_tokens
           THEN /\ chunks' = << SingleChunk(Messages, total_tokens) >>
                /\ cpc' = "returned"
           ELSE /\ chunks' = <<>>
                /\ cpc' = "loop"
    /\ current_start' = 0
    /\ UNCHANGED <<conversation, target_tokens, overlap_tokens>>
    /\ UNCHANGED <<gatherVars, pipeVars, libVars>>

\* lines 82-134: one pass of the while loop
ChunkIterate ==
    /\ cpc = "loop"
    /\ current_start < Len(Messages)
    /\ Len(chunks) <= Len(Messages)     \* cap of the model, never reached: see ChunkingTerminates
    /\ LET chunk == BuildChunk(Messages, current_start, target_tokens)
       IN  /\ chunks' = Append(chunks, chunk)
           /\ current_start' =
                  SafeStart(OverlapStart(Messages, chunk, overlap_tokens), chunk)
    /\ UNCHANGED <<conversation, target_tokens, overlap_tokens, cpc>>
    /\ UNCHANGED <<gatherVars, pipeVars, libVars>>

\* lines 82, 136: the loop condition fails, the chunks are returned
ChunkReturn ==
    /\ cpc = "loop"
    /\ current_start >= Len(Messages)
    /\ cpc' = "returned"
    /\ UNCHANGED <<conversation, target_tokens, overlap_tokens, chunks, current_start>>
    /\ UNCHANGED <<gatherVars, pipeVars, libVars>>

RECURSIVE SeqsUpTo(_, _)
\* the sequences over S of length at most n
SeqsUpTo(S, n) ==
    IF n = 0 THEN {<<>>}
    ELSE LET shorter == SeqsUpTo(S, n - 1)
         IN  shorter \cup {Append(s, x) : s \in {t \in shorter : Len(t) = n - 1}, x \in S}

\* the messages a parsed conversation may hold: system notices and user messages
MessageKinds ==
    {[is_system |-> TRUE, sender |-> 0, text |-> 9]}
    \cup {[is_system |-> FALSE, sender |-> SenderLen, text |-> t] : t \in TextLens}

\* no call of chunk_conversation is under way
ChunkIdle ==
    /\ conversation = <<>>
    /\ target_tokens = 0
    /\ overlap_tokens = 0
    /\ chunks = <<>>
    /\ current_start = 0
    /\ cpc = "idle"

\* no call of gather_all_evidence is under way
GatherIdle ==
    /\ gchunks = <<>>
    /\ max_workers = 0
    /\ task = <<>>
    /\ results = <<>>
    /\ completed_count = 0
    /\ total_input_tokens = 0
    /\ packets = <<>>
    /\ gpc = "idle"

\* no end-to-end call is under way
PipeIdle ==
    /\ offline = FALSE
    /\ api_key = FALSE
    /\ env_key = FALSE
    /\ provider = "anthropic"
    /\ ppc = "idle"
    /\ evidence = <<>>
    /\ attempt = 0
    /\ calls = [extraction |-> 0, filter |-> 0, synthesis |-> 0, synthesis_noev |-> 0]
    /\ incidents = {}
    /\ evidence_error = "none"
    /\ result = <<>>
    /\ raised = "none"

AggIdle ==
    /\ category = "none"
    /\ apackets = <<>>
    /\ items_with_idx = <<>>
    /\ sample_i = 0
    /\ sampled = <<>>
    /\ aggregated = <<>>
    /\ apc = "idle"

FilterIdle ==
    /\ fevidence = <<>>
    /\ filtered = <<>>
    /\ judge_calls = 0
    /\ judge_failures = 0
    /\ judge_data = <<>>
    /\ fpc = "idle"

SynthIdle ==
    /\ participants = {}
    /\ awards = <<>>
    /\ ga_attempt = 0
    /\ ga_passes = <<>>
    /\ ga_returned = <<>>
    /\ ga_raised = "none"
    /\ ga_pc = "idle"

PatternIdle ==
    /\ pa_patterns = <<>>
    /\ pa_participants = <<>>
    /\ pa_awards = <<>>
    /\ awards_per_person = <<>>
    /\ pa_i = 0
    /\ pa_pc = "idle"

ExtractIdle ==
    /\ ex_calls = <<>>
    /\ ex_result = <<>>
    /\ ex_pc = "idle"

PoolIdle ==
    /\ pool_workers = 0
    /\ worker = <<>>
    /\ provider_client = 0
    /\ writes = {}
    /\ pool_counts = <<>>
    /\ main_pc = "idle"
    /\ main_idx = 0

RunIdle ==
    /\ run_offline = FALSE
    /\ run_key = FALSE
    /\ run_n = 0
    /\ run_i = 0
    /\ run_items = 0
    /\ run_attempt = 0
    /\ run_events = <<>>
    /\ run_usage = 0
    /\ run_counted = 0
    /\ run_synth = 0
    /\ run_result = <<>>
    /\ run_shadow = <<>>
    /\ run_pc = "idle"

LibIdle == AggIdle /\ FilterIdle /\ SynthIdle /\ PatternIdle /\ ExtractIdle /\ PoolIdle /\ RunIdle

ChunkInit ==
    /\ conversation \in SeqsUpTo(MessageKinds, MaxMsgs)
    /\ target_tokens \in TargetTokens
    /\ overlap_tokens \in OverlapTokens
    /\ chunks = <<>>
    /\ current_start = 0
    /\ cpc = "call"
    /\ GatherIdle
    /\ PipeIdle
    /\ LibIdle

ChunkNext == ChunkEnter \/ ChunkIterate \/ ChunkReturn

SpecChunk == ChunkInit /\ [][ChunkNext]_vars

(***************************************************************************)
(* Properties of chunk_conversation                                        *)
(***************************************************************************)
Range(s) == {s[i] : i \in DOMAIN s}

\* the indices two consecutive chunks share
Shared(k) == Range(chunks[k].messages) \cap Range(chunks[k + 1].messages)

RECURSIVE SumOver(_, _)
\* total length of the single-message texts of a set of indices
SumOver(msgs, S) ==
    IF S = {} THEN 0
    ELSE LET i == CHOOSE x \in S : TRUE
         IN  FormatSingleLen(msgs[i + 1]) + SumOver(msgs, S \ {i})

\* C7: the returned chunks cover the user messages exactly: the first chunk
\* starts at index 0, the last ends at the last index, every chunk holds the
\* contiguous range start_idx..end_idx, consecutive chunks leave no index out,
\* and an index held by two chunks lies in the window that a chunk shares with
\* its successor, which exists only under a positive overlap budget.
ChunksCoverInput ==
    cpc = "returned" =>
        /\ (Len(Messages) = 0) = (chunks = <<>>)
        /\ chunks # <<>> =>
            /\ chunks[1].start_idx = 0
            /\ chunks[Len(chunks)].end_idx = Len(Messages) - 1
        /\ \A k \in DOMAIN chunks :
               /\ chunks[k].start_idx <= chunks[k].end_idx
               /\ chunks[k].messages =
                      [n \in 1..(chunks[k].end_idx - chunks[k].start_idx + 1) |->
                           chunks[k].start_idx + n - 1]
        /\ \A k \in 1..(Len(chunks) - 1) :
               chunks[k + 1].start_idx <= chunks[k].end_idx + 1
        /\ UNION {Range(chunks[k].messages) : k \in DOMAIN chunks}
               = 0..(Len(Messages) - 1)
        /\ \A j \in DOMAIN chunks : \A k \in DOMAIN chunks :
               j < k =>
                   \A m \in Range(chunks[j].messages) \cap Range(chunks[k].messages) :
                       /\ overlap_tokens > 0
                       /\ m \in Shared(j)
                       /\ chunks[j + 1].start_idx <= m
                       /\ m <= chunks[j].end_idx

\* C7 witness: three or more chunks were returned, two of them sharing a message
ChunksCoverWitness ==
    /\ cpc = "returned"
    /\ Len(chunks) >= 3
    /\ \E k \in 1..(Len(chunks) - 1) : Shared(k) # {}

\* C8: every pass of the loop moves current_start forward, the start indices
\* of the chunks are strictly increasing, there are never more chunks than
\* messages, and the call is never stuck before it has returned: at most
\* Len(Messages) passes are made and then the chunks are returned.
ChunkingTerminates ==
    /\ [][ChunkIterate => current_start' > current_start]_vars
    /\ [](\A k \in 1..(Len(chunks) - 1) :
              chunks[k].start_idx < chunks[k + 1].start_idx)
    /\ [](Len(chunks) <= Len(Messages))
    /\ [](cpc = "returned" \/ ENABLED ChunkNext)

\* C8 witness: a call with an overlap budget as large as the target returned
\* several chunks, one of them a single message that alone exceeds the target
OversizedMessageWitness ==
    /\ cpc = "returned"
    /\ overlap_tokens >= target_tokens
    /\ Len(chunks) >= 2
    /\ \E k \in DOMAIN chunks :
           /\ Len(chunks[k].messages) = 1
           /\ chunks[k].token_estimate > target_tokens

\* C9: what two consecutive chunks share is a suffix of the earlier chunk, its
\* estimated size is within the overlap budget, and it is empty when the
\* overlap budget is 0.
OverlapWithinBudget ==
    \A k \in 1..(Len(chunks) - 1) :
        /\ Shared(k) = {i \in Range(chunks[k].messages) :
                            \E s \in Shared(k) : s <= i}
        /\ EstimateTokens(SumOver(Messages, Shared(k))) <= overlap_tokens
        /\ overlap_tokens = 0 => Shared(k) = {}

\* C9 witness: two consecutive chunks share two messages
OverlapWitness ==
    /\ cpc = "returned"
    /\ \E k \in 1..(Len(chunks) - 1) : Cardinality(Shared(k)) >= 2

TotalTokens == EstimateTokens(FormatMessagesLen(Messages))

\* C21 as stated: every conversation whose estimated size is within the
\* target is returned as exactly one chunk holding every user message in order.
WithinTargetIsOneChunk ==
    (cpc = "returned" /\ TotalTokens <= target_tokens) =>
        /\ Len(chunks) = 1
        /\ chunks[1].messages = [k \in 1..Len(Messages) |-> k - 1]

\* C21: a conversation with at least one user message whose estimated size
\* is within the target is returned as exactly one chunk, which holds every
\* user message in order; a conversation without user messages is returned
\* as no chunk at all.
NonEmptyWithinTargetIsOneChunk ==
    (cpc = "returned" /\ TotalTokens <= target_tokens) =>
        IF Len(Messages) = 0 THEN chunks = <<>>
        ELSE /\ Len(chunks) = 1
             /\ chunks[1].messages = [k \in 1..Len(Messages) |-> k - 1]
             /\ chunks[1].start_idx = 0
             /\ chunks[1].end_idx = Len(Messages) - 1

\* C21 witness: a conversation of user messages and a system notice, exactly
\* at the target, was returned as one chunk
OneChunkWitness ==
    /\ cpc = "returned"
    /\ TotalTokens = target_tokens
    /\ Len(Messages) >= 2
    /\ Len(Messages) < Len(conversation)
    /\ Len(chunks) = 1

\* C29: the end indices of the chunks are strictly increasing: every chunk
\* after the first holds a message beyond the end of its predecessor.
EndIndicesIncrease ==
    \A k \in 1..(Len(chunks) - 1) : chunks[k].end_idx < chunks[k + 1].end_idx

(***************************************************************************)
(* gathering.py                                                            *)
(*                                                                         *)
(* An optional value (a packet, or None) is a sequence of at most one      *)
(* element.  An EvidencePacket is modelled by the indices it carries and   *)
(* the number of evidence items it holds.                                  *)
(***************************************************************************)
MaxChunks == 4

\* the values tried for max_workers; 5 is the default of the source
WorkerCounts == {2, 5}
\* what a parsed response may hold: no item, some items, or items with a field
\* of the wrong type (inside_jokes: [{"reference": null}]), which
\* _safe_list lets through
WellTypedData == {[items |-> 0, typed |-> TRUE], [items |-> 3, typed |-> TRUE]}
ResponseData == WellTypedData \cup {[items |-> 3, typed |-> FALSE]}
\* what one call of provider.complete_json can end in: a parsed response, a
\* JSON error whose text names a truncation ("Unterminated string",
\* "Expecting"), or any other provider error
CallOutcomes == {"ok", "truncated", "error"}

SEQUENTIAL_LIMIT == 3

\* chunk lists as chunk_conversation builds them: consecutive ranges that
\* share one message with their successor
ChunkList(n) ==
    [i \in 1..n |-> [start_idx |-> 2 * (i - 1), end_idx |-> 2 * (i - 1) + 2]]

\* _parse_evidence_response(data, chunk.start_idx, chunk.end_idx)
ParseEvidenceResponse(data, start_idx, end_idx) ==
    [chunk_start_idx |-> start_idx, chunk_end_idx |-> end_idx,
     items |-> data.items, typed |-> data.typed]

\* _create_empty_packet(start_idx, end_idx)
CreateEmptyPacket(start_idx, end_idx) ==
    [chunk_start_idx |-> start_idx, chunk_end_idx |-> end_idx,
     items |-> 0, typed |-> TRUE]

\* _try_gather_evidence: the ChunkResult of one attempt on chunk i
TryGatherEvidence(i, outcome, data) ==
    IF outcome = "ok"
    THEN [chunk_index |-> i,
          packet |-> <<ParseEvidenceResponse(data, gchunks[i].start_idx,
                                             gchunks[i].end_idx)>>,
          response |-> TRUE,
          error |-> "none"]
    ELSE [chunk_index |-> i, packet |-> <<>>, response |-> FALSE, error |-> outcome]

\* gather_evidence_from_chunk, line 59: the first attempt is retried
NeedsRetry(res) == res.error = "truncated"

Running(i) == task[i].st \in {"first", "retry"}

\* lines 120-124, 134-136, 169-185: the sequential loop for 3 chunks or
\* fewer, else every chunk is submitted to the pool
GatherCall ==
    /\ gpc = "call"
    /\ gpc' = IF Len(gchunks) <= SEQUENTIAL_LIMIT THEN "sequential" ELSE "parallel"
    /\ UNCHANGED <<gchunks, max_workers, task, results, completed_count,
                   total_input_tokens, packets>>
    /\ UNCHANGED <<chunkVars, pipeVars, libVars>>

\* a pool that starts every submitted chunk at once
PoolStartUnbounded(i) ==
    /\ gpc = "parallel"
    /\ task[i].st = "pending"
    /\ \A j \in 1..(i - 1) : task[j].st # "pending"
    /\ task' = [task EXCEPT ![i].st = "first"]
    /\ UNCHANGED <<gchunks, max_workers, results, completed_count,
                   total_input_tokens, packets, gpc>>
    /\ UNCHANGED <<chunkVars, pipeVars, libVars>>

\* ThreadPoolExecutor: a free worker takes the oldest submitted chunk
PoolStart(i) ==
    /\ gpc = "parallel"
    /\ task[i].st = "pending"
    /\ \A j \in 1..(i - 1) : task[j].st # "pending"
    /\ Cardinality({j \in DOMAIN task : Running(j)}) < max_workers
    /\ task' = [task EXCEPT ![i].st = "first"]
    /\ UNCHANGED <<gchunks, max_workers, results, completed_count,
                   total_input_tokens, packets, gpc>>
    /\ UNCHANGED <<chunkVars, pipeVars, libVars>>

\* _gather_sequential, lines 138-139: the loop turns to the next chunk
SeqStart(i) ==
    /\ gpc = "sequential"
    /\ i = Len(packets) + 1
    /\ task[i].st = "pending"
    /\ task' = [task EXCEPT ![i].st = "first"]
    /\ UNCHANGED <<gchunks, max_workers, results, completed_count,
                   total_input_tokens, packets, gpc>>
    /\ UNCHANGED <<chunkVars, pipeVars, libVars>>

\* gather_evidence_from_chunk, lines 53-63: the first attempt returns
FirstAttempt(i) ==
    /\ task[i].st = "first"
    /\ \E outcome \in CallOutcomes : \E data \in WellTypedData :
           LET res == TryGatherEvidence(i, outcome, data)
           IN  task' = [task EXCEPT ![i] =
                           IF NeedsRetry(res)
                           THEN [st |-> "retry", result |-> res]
                           ELSE [st |-> "done", result |-> res]]
    /\ UNCHANGED <<gchunks, max_workers, results, completed_count,
                   total_input_tokens, packets, gpc>>
    /\ UNCHANGED <<chunkVars, pipeVars, libVars>>

\* gather_evidence_from_chunk, lines 59-63: the retry returns
SecondAttempt(i) ==
    /\ task[i].st = "retry"
    /\ \E outcome \in CallOutcomes : \E data \in WellTypedData :
           task' = [task EXCEPT ![i] =
                       [st |-> "done", result |-> TryGatherEvidence(i, outcome, data)]]
    /\ UNCHANGED <<gchunks, max_workers, results, completed_count,
                   total_input_tokens, packets, gpc>>
    /\ UNCHANGED <<chunkVars, pipeVars, libVars>>

\* lines 141-152: the packet of a result, an empty one when it has none
PacketOf(i, found) ==
    IF found # <<>> /\ found[1].packet # <<>>
    THEN found[1].packet[1]
    ELSE CreateEmptyPacket(gchunks[i].start_idx, gchunks[i].end_idx)

\* _gather_sequential, lines 141-155: the packet of chunk i is appended
SeqAppend(i) ==
    /\ gpc = "sequential"
    /\ i = Len(packets) + 1
    /\ task[i].st = "done"
    /\ packets' = Append(packets, PacketOf(i, <<task[i].result>>))
    /\ total_input_tokens' =
           total_input_tokens
           + (IF task[i].result.packet # <<>> /\ task[i].result.response THEN 1 ELSE 0)
    /\ completed_count' = completed_count + 1
    /\ UNCHANGED <<gchunks, max_workers, task, results, gpc>>
    /\ UNCHANGED <<chunkVars, pipeVars, libVars>>

\* _gather_sequential, line 157
SeqReturn ==
    /\ gpc = "sequential"
    /\ Len(packets) = Len(gchunks)
    /\ gpc' = "returned"
    /\ UNCHANGED <<gchunks, max_workers, task, results, completed_count,
                   total_input_tokens, packets>>
    /\ UNCHANGED <<chunkVars, pipeVars, libVars>>

\* results.get(i)
ResultsGet(i) == SelectSeq(results, LAMBDA r : r.chunk_index = i)

\* lines 188-212: as_completed hands over a finished future, in any order
Collect(i) ==
    /\ gpc = "parallel"
    /\ task[i].st = "done"
    /\ ResultsGet(i) = <<>>
    /\ results' = Append(results, task[i].result)
    /\ total_input_tokens' =
           total_input_tokens + (IF task[i].result.response THEN 1 ELSE 0)
    /\ completed_count' = completed_count + 1
    /\ UNCHANGED <<gchunks, max_workers, task, packets, gpc>>
    /\ UNCHANGED <<chunkVars, pipeVars, libVars>>

\* the list built from the dict in its own (insertion) order
PacketsInCompletionOrder ==
    [k \in 1..Len(results) |-> PacketOf(results[k].chunk_index, <<results[k]>>)]

\* lines 214-225: the ordered packet list
OrderedPackets ==
    [i \in 1..Len(gchunks) |-> PacketOf(i, ResultsGet(i))]

\* lines 188, 214-227: every future was handed over, the pool is shut down,
\* the packets are put in chunk order and returned
ParallelReturn ==
    /\ gpc = "parallel"
    /\ Len(results) = Len(gchunks)
    /\ packets' = OrderedPackets
    /\ gpc' = "returned"
    /\ UNCHANGED <<gchunks, max_workers, task, results, completed_count,
                   total_input_tokens>>
    /\ UNCHANGED <<chunkVars, pipeVars, libVars>>

GatherInit ==
    /\ gchunks \in {ChunkList(n) : n \in 0..MaxChunks}
    /\ max_workers \in WorkerCounts
    /\ task = [i \in 1..Len(gchunks) |-> [st |-> "pending", result |-> <<>>]]
    /\ results = <<>>
    /\ completed_count = 0
    /\ total_input_tokens = 0
    /\ packets = <<>>
    /\ gpc = "call"
    /\ ChunkIdle
    /\ PipeIdle
    /\ LibIdle

GatherNext ==
    \/ GatherCall
    \/ \E i \in DOMAIN task : PoolStart(i)
    \/ \E i \in DOMAIN task : SeqStart(i)
    \/ \E i \in DOMAIN task : FirstAttempt(i)
    \/ \E i \in DOMAIN task : SecondAttempt(i)
    \/ \E i \in DOMAIN task : SeqAppend(i)
    \/ SeqReturn
    \/ \E i \in DOMAIN task : Collect(i)
    \/ ParallelReturn

SpecGather == GatherInit /\ [][GatherNext]_vars

(***************************************************************************)
(* Properties of gather_all_evidence                                       *)
(***************************************************************************)
\* C10: gather_all_evidence has returned only when no extraction is pending or
\* running, and the returned list holds one packet per chunk, packet i with the
\* start and end index of chunk i: the packet parsed from the response of
\* chunk i, or an empty packet when the extraction of chunk i failed.
GatherBarrierAndOrder ==
    gpc = "returned" =>
        /\ \A i \in DOMAIN task : task[i].st = "done"
        /\ Len(packets) = Len(gchunks)
        /\ \A i \in DOMAIN gchunks :
               /\ packets[i].chunk_start_idx = gchunks[i].start_idx
               /\ packets[i].chunk_end_idx = gchunks[i].end_idx
               /\ task[i].result.packet # <<>> => packets[i] = task[i].result.packet[1]
               /\ task[i].result.packet = <<>> => packets[i].items = 0

\* C10 witness: the pool returned although the workers finished out of chunk
\* order, one of them with a failure
GatherOutOfOrderWitness ==
    /\ gpc = "returned"
    /\ Len(gchunks) > SEQUENTIAL_LIMIT
    /\ \E k \in 1..(Len(results) - 1) :
           results[k].chunk_index > results[k + 1].chunk_index
    /\ \E i \in DOMAIN task : task[i].result.packet = <<>>
    /\ \E i \in DOMAIN task : task[i].result.packet # <<>>

\* C23: with 3 chunks or fewer the extractions are made one after another
\* in chunk order: the only chunk whose extraction may have started and
\* whose packet is not appended yet is the one after the packets built so
\* far; with more than 3 chunks the pool is used and at most max_workers
\* extractions are in progress at any time.
SequentialOrBoundedPool ==
    /\ gpc = "sequential" =>
           /\ Len(gchunks) <= SEQUENTIAL_LIMIT
           /\ \A i \in DOMAIN task :
                  /\ i <= Len(packets) => task[i].st = "done"
                  /\ i > Len(packets) + 1 => task[i].st = "pending"
           /\ Cardinality({i \in DOMAIN task : Running(i)}) <= 1
    /\ gpc = "parallel" =>
           /\ Len(gchunks) > SEQUENTIAL_LIMIT
           /\ Cardinality({i \in DOMAIN task : Running(i)}) <= max_workers

\* C23 witness: every worker of the pool is busy while a chunk waits
PoolFullWitness ==
    /\ gpc = "parallel"
    /\ Cardinality({i \in DOMAIN task : Running(i)}) = max_workers
    /\ \E i \in DOMAIN task : task[i].st = "pending"

(***************************************************************************)
(* orchestrator.py: generate_unwrapped_with_fallback                       *)
(*                                                                         *)
(* The text of an error is modelled by the fixed part of its message.      *)
(* The packets of the chunks are gathered in chunk order: by               *)
(* GatherBarrierAndOrder the list gather_all_evidence returns is the same  *)
(* whatever the schedule of the pool.                                      *)
(***************************************************************************)
MaxSegments == 3

DEFAULT_MAX_WORKERS == 5
MAX_RETRIES == 1
MIN_FILTER_ITEMS == 5

Providers == {"anthropic", "openai"}

\* what one synthesis call can end in: awards that pass validation, awards
\* with validation issues, a response _parse_awards finds no award in, or a
\* provider error
SynthesisOutcomes == {"valid", "invalid", "unparsable", "error"}

\* generate_unwrapped, lines 115-128: model_name
ModelName(prov) == IF prov = "openai" THEN "gpt-mini+gpt-main" ELSE "haiku+sonnet"

\* _generate_without_evidence, lines 380-387: model_name
SynthesisOnlyModelName(prov) == IF prov = "openai" THEN "gpt-main-only" ELSE "sonnet-only"

\* generate_unwrapped_offline: awards made from the detected patterns
GenerateUnwrappedOffline ==
    [awards |-> "pattern_awards", evidence |-> <<>>, model_used |-> "offline",
     success |-> TRUE, error |-> "none"]

\* generate_unwrapped, lines 215-223
FullResult(ev, prov) ==
    [awards |-> "synthesis_awards", evidence |-> <<ev>>, model_used |-> ModelName(prov),
     success |-> TRUE, error |-> "none"]

\* _generate_without_evidence, lines 409-418
WithoutEvidenceResult(prov) ==
    [awards |-> "synthesis_awards", evidence |-> <<>>,
     model_used |-> SynthesisOnlyModelName(prov),
     success |-> TRUE, error |-> "Evidence gathering failed"]

\* AnthropicProvider.__init__ / OpenAIProvider.__init__: no key from the
\* argument nor from the environment
ProviderInitRaises == ~(api_key \/ env_key)

\* the handlers with every exception class caught but the last, `except
\* Exception`, left out
FallbackNoCatchAll(exc) ==
    IF exc.kind = "ProviderError" \/ exc.kind = "SynthesisError"
    THEN [next |-> "done", raised |-> "none", evidence_error |-> "none",
          result |-> <<[GenerateUnwrappedOffline EXCEPT !.error = exc.text]>>]
    ELSE IF exc.kind = "EvidenceError"
    THEN [next |-> "synthesis_noev", raised |-> "none", evidence_error |-> exc.text,
          result |-> <<>>]
    ELSE [next |-> "done", raised |-> exc.kind, evidence_error |-> "none",
          result |-> <<>>]

\* the handlers with result.error left unset
FallbackErrorUnset(exc) ==
    IF exc.kind = "EvidenceError"
    THEN [next |-> "synthesis_noev", raised |-> "none", evidence_error |-> exc.text,
          result |-> <<>>]
    ELSE [next |-> "done", raised |-> "none", evidence_error |-> "none",
          result |-> <<GenerateUnwrappedOffline>>]

\* the handlers with a synthesis failure sent to _generate_without_evidence
FallbackRetriesSynthesis(exc) ==
    IF exc.kind = "ProviderError"
    THEN [next |-> "done", raised |-> "none", evidence_error |-> "none",
          result |-> <<[GenerateUnwrappedOffline EXCEPT !.error = exc.text]>>]
    ELSE IF exc.kind = "EvidenceError" \/ exc.kind = "SynthesisError"
    THEN [next |-> "synthesis_noev", raised |-> "none", evidence_error |-> exc.text,
          result |-> <<>>]
    ELSE [next |-> "done", raised |-> "none", evidence_error |-> "none",
          result |-> <<[GenerateUnwrappedOffline EXCEPT !.error = "Unexpected error"]>>]

\* generate_unwrapped_with_fallback, lines 327-353: the except clauses, for an
\* exception that leaves generate_unwrapped
Fallback(exc) ==
    IF exc.kind = "ProviderError"
    THEN [next |-> "done", raised |-> "none", evidence_error |-> "none",
          result |-> <<[GenerateUnwrappedOffline EXCEPT !.error = exc.text]>>]
    ELSE IF exc.kind = "EvidenceError"
    THEN [next |-> "synthesis_noev", raised |-> "none", evidence_error |-> exc.text,
          result |-> <<>>]
    ELSE IF exc.kind = "SynthesisError"
    THEN [next |-> "done", raised |-> "none", evidence_error |-> "none",
          result |-> <<[GenerateUnwrappedOffline EXCEPT !.error = exc.text]>>]
    ELSE [next |-> "done", raised |-> "none", evidence_error |-> "none",
          result |-> <<[GenerateUnwrappedOffline EXCEPT !.error = "Unexpected error"]>>]

\* the state after an exception left generate_unwrapped
Handle(exc) ==
    LET h == Fallback(exc)
    IN  /\ ppc' = h.next
        /\ raised' = h.raised
        /\ evidence_error' = h.evidence_error
        /\ result' = h.result
        /\ attempt' = 0

\* lines 299-315: offline mode on request or without a key, else the pipeline
EnterFallback ==
    /\ ppc = "call"
    /\ IF offline \/ ~(api_key \/ env_key)
       THEN /\ result' = <<GenerateUnwrappedOffline>>
            /\ ppc' = "done"
       ELSE /\ result' = result
            /\ ppc' = "pipeline"
    /\ UNCHANGED <<offline, api_key, env_key, provider, evidence, attempt, calls,
                   incidents, evidence_error, raised>>
    /\ UNCHANGED <<chunkVars, gatherVars, libVars>>

\* generate_unwrapped, lines 108-144: patterns, providers, chunks
StartPipeline ==
    /\ ppc = "pipeline"
    /\ IF ProviderInitRaises
       THEN Handle([kind |-> "ProviderError", text |-> "No API key provided"])
       ELSE /\ ppc' = "evidence"
            /\ UNCHANGED <<attempt, evidence_error, result, raised>>
    /\ UNCHANGED <<offline, api_key, env_key, provider, evidence, calls, incidents>>
    /\ UNCHANGED <<chunkVars, gatherVars, libVars>>

\* gather_evidence_from_chunk: the ChunkResult for chunk i, from what the
\* first call and, if it is made, the second call end in
GatherEvidenceFromChunk(i, outcome1, data1, outcome2, data2) ==
    LET first == TryGatherEvidence(i, outcome1, data1)
    IN  IF NeedsRetry(first) THEN TryGatherEvidence(i, outcome2, data2) ELSE first

\* a truncated response retried twice
ExtractionCallsRetriedTwice(i, outcome1, data1) ==
    IF NeedsRetry(TryGatherEvidence(i, outcome1, data1)) THEN 3 ELSE 1

\* the calls gather_evidence_from_chunk makes for chunk i: the first, and the
\* retry with the higher token limit
ExtractionCalls(i, outcome1, data1) ==
    IF NeedsRetry(TryGatherEvidence(i, outcome1, data1)) THEN 2 ELSE 1

\* the failed calls of gather_evidence_from_chunk on chunk i
ExtractionIncidents(i, outcome1, outcome2) ==
    (IF outcome1 # "ok" THEN {<<"extraction", outcome1, i>>} ELSE {})
    \cup (IF outcome1 = "truncated" /\ outcome2 # "ok"
          THEN {<<"extraction", outcome2, i>>} ELSE {})

\* lines 149-151, gather_all_evidence: the packet of the next chunk
GatherChunk ==
    /\ ppc = "evidence"
    /\ Len(packets) < Len(gchunks)
    /\ LET i == Len(packets) + 1
       IN  \E outcome1 \in CallOutcomes, outcome2 \in CallOutcomes :
           \E data1 \in ResponseData, data2 \in ResponseData :
               LET res == GatherEvidenceFromChunk(i, outcome1, data1, outcome2, data2)
               IN  /\ packets' = Append(packets, PacketOf(i, <<res>>))
                   /\ calls' = [calls EXCEPT !.extraction =
                                    @ + ExtractionCalls(i, outcome1, data1)]
                   /\ incidents' = incidents \cup ExtractionIncidents(i, outcome1, outcome2)
    /\ UNCHANGED <<offline, api_key, env_key, provider, ppc, evidence, attempt,
                   evidence_error, result, raised>>
    /\ UNCHANGED <<chunkVars, libVars>>
    /\ UNCHANGED <<gchunks, max_workers, task, results, completed_count,
                   total_input_tokens, gpc>>

RECURSIVE SumItems(_, _)
SumItems(pk, n) == IF n = 0 THEN 0 ELSE pk[n].items + SumItems(pk, n - 1)

\* aggregate_evidence raises (AttributeError) on a field of the wrong type
AggregateRaises(pk) == \E i \in DOMAIN pk : ~pk[i].typed

\* aggregate_evidence that gives up when a chunk has no items
AggregateAllOrNothing(pk) ==
    IF \E i \in DOMAIN pk : pk[i].items = 0
    THEN [items |-> 0, from |-> {}, filter |-> "none"]
    ELSE [items |-> SumItems(pk, Len(pk)),
          from |-> {i \in DOMAIN pk : pk[i].items > 0},
          filter |-> "none"]

\* aggregate_evidence: the items of every packet, and the chunks they are from
AggregateEvidence(pk) ==
    [items |-> SumItems(pk, Len(pk)),
     from |-> {i \in DOMAIN pk : pk[i].items > 0},
     filter |-> "none"]

\* lines 168-181 and filter_evidence_by_quality, lines 160-167: aggregation,
\* then the quality filter unless there are fewer than 5 items
Aggregate ==
    /\ ppc = "evidence"
    /\ Len(packets) = Len(gchunks)
    /\ IF AggregateRaises(packets)
       THEN /\ Handle([kind |-> "AttributeError", text |-> "'NoneType' object"])
            /\ evidence' = evidence
       ELSE /\ evidence' = <<AggregateEvidence(packets)>>
            /\ ppc' = IF AggregateEvidence(packets).items < MIN_FILTER_ITEMS
                      THEN "synthesis" ELSE "filter_full"
            /\ UNCHANGED <<attempt, evidence_error, result, raised>>
    /\ UNCHANGED <<offline, api_key, env_key, provider, calls, incidents>>
    /\ UNCHANGED <<chunkVars, gatherVars, libVars>>

\* the numbers of items the judge may keep of n
KeptCounts(n) == {0, n}

\* filter_evidence_by_quality, lines 172-189: the full filtered lists
FilterFull ==
    /\ ppc = "filter_full"
    /\ \E outcome \in CallOutcomes :
           IF outcome = "ok"
           THEN /\ \E kept \in KeptCounts(evidence[1].items) :
                       evidence' = <<[evidence[1] EXCEPT !.items = kept, !.filter = "full"]>>
                /\ ppc' = "synthesis"
                /\ incidents' = incidents
           ELSE /\ evidence' = evidence
                /\ ppc' = "filter_index"
                /\ incidents' = incidents \cup {<<"filter", outcome, 0>>}
    /\ calls' = [calls EXCEPT !.filter = @ + 1]
    /\ UNCHANGED <<offline, api_key, env_key, provider, attempt, evidence_error,
                   result, raised>>
    /\ UNCHANGED <<chunkVars, gatherVars, libVars>>

\* filter_evidence_by_quality, lines 191-208: the indices to keep, else the
\* evidence as it was
FilterIndex ==
    /\ ppc = "filter_index"
    /\ \E outcome \in CallOutcomes :
           IF outcome = "ok"
           THEN /\ \E kept \in KeptCounts(evidence[1].items) :
                       evidence' = <<[evidence[1] EXCEPT !.items = kept, !.filter = "index"]>>
                /\ incidents' = incidents
           ELSE /\ evidence' = <<[evidence[1] EXCEPT !.filter = "unfiltered"]>>
                /\ incidents' = incidents \cup {<<"filter", outcome, 0>>}
    /\ ppc' = "synthesis"
    /\ calls' = [calls EXCEPT !.filter = @ + 1]
    /\ UNCHANGED <<offline, api_key, env_key, provider, attempt, evidence_error,
                   result, raised>>
    /\ UNCHANGED <<chunkVars, gatherVars, libVars>>

\* generate_awards with the awards of the last pass refused when they have
\* issues
GenerateAwardsStepStrict(att, outcome) ==
    IF outcome = "error" THEN "raise"
    ELSE IF outcome = "valid" THEN "return"
    ELSE IF att < MAX_RETRIES THEN "retry" ELSE "raise"

\* generate_awards with a provider error retried like a response without
\* awards
GenerateAwardsStepRetryError(att, outcome) ==
    IF outcome = "error" \/ outcome = "unparsable"
    THEN IF att < MAX_RETRIES THEN "retry" ELSE "raise"
    ELSE IF outcome = "valid" THEN "return"
    ELSE IF att < MAX_RETRIES THEN "retry" ELSE "return"

\* generate_awards, lines 39-87: what the attempt-th pass of the loop does
\* with the outcome of its call
GenerateAwardsStep(att, outcome) ==
    IF outcome = "error" THEN "raise"                     \* lines 83-84
    ELSE IF outcome = "unparsable"                        \* lines 77-81
    THEN IF att < MAX_RETRIES THEN "retry" ELSE "raise"
    ELSE IF outcome = "valid" THEN "return"               \* lines 65-67
    ELSE IF att < MAX_RETRIES THEN "retry" ELSE "return"  \* lines 69-75

\* str(e) of the SynthesisError generate_awards raises
SynthesisErrorText(outcome) ==
    IF outcome = "error" THEN "Failed to generate awards"
    ELSE "No awards found in response"

\* generate_awards called by generate_unwrapped (lines 201-228) or by
\* _generate_without_evidence (lines 400-425): one call of the synthesis model
GenerateAwardsAttempt ==
    /\ ppc \in {"synthesis", "synthesis_noev"}
    /\ \E outcome \in SynthesisOutcomes :
           LET step == GenerateAwardsStep(attempt, outcome)
           IN  /\ incidents' = IF outcome \in {"error", "unparsable"}
                               THEN incidents \cup {<<ppc, outcome, 0>>} ELSE incidents
               /\ IF step = "retry"
                  THEN /\ attempt' = attempt + 1
                       /\ UNCHANGED <<ppc, evidence_error, result, raised>>
                  ELSE IF step = "return"
                  THEN /\ result' = IF ppc = "synthesis"
                                    THEN <<FullResult(evidence[1], provider)>>
                                    ELSE <<WithoutEvidenceResult(provider)>>
                       /\ ppc' = "done"
                       /\ UNCHANGED <<attempt, evidence_error, raised>>
                  ELSE IF ppc = "synthesis"
                  THEN Handle([kind |-> "SynthesisError",
                               text |-> SynthesisErrorText(outcome)])
                  ELSE \* _generate_without_evidence, lines 420-425
                       /\ result' = <<[GenerateUnwrappedOffline EXCEPT
                                          !.error = "Evidence and synthesis failed"]>>
                       /\ ppc' = "done"
                       /\ UNCHANGED <<attempt, evidence_error, raised>>
    /\ calls' = [calls EXCEPT ![ppc] = @ + 1]
    /\ UNCHANGED <<offline, api_key, env_key, provider, evidence>>
    /\ UNCHANGED <<chunkVars, gatherVars, libVars>>

Init ==
    /\ offline \in BOOLEAN
    /\ api_key \in BOOLEAN
    /\ env_key \in BOOLEAN
    /\ provider \in Providers
    /\ ppc = "call"
    /\ evidence = <<>>
    /\ attempt = 0
    /\ calls = [extraction |-> 0, filter |-> 0, synthesis |-> 0, synthesis_noev |-> 0]
    /\ incidents = {}
    /\ evidence_error = "none"
    /\ result = <<>>
    /\ raised = "none"
    /\ gchunks \in {ChunkList(n) : n \in 0..MaxSegments}
    /\ max_workers = DEFAULT_MAX_WORKERS
    /\ task = <<>>
    /\ results = <<>>
    /\ completed_count = 0
    /\ total_input_tokens = 0
    /\ packets = <<>>
    /\ gpc = "idle"
    /\ ChunkIdle
    /\ LibIdle

Next ==
    \/ EnterFallback
    \/ StartPipeline
    \/ GatherChunk
    \/ Aggregate
    \/ FilterFull
    \/ FilterIndex
    \/ GenerateAwardsAttempt

Spec == Init /\ [][Next]_vars

(***************************************************************************)
(* Properties of generate_unwrapped_with_fallback                          *)
(***************************************************************************)
Finished == ppc = "done" /\ result # <<>>

ExternalCalls == calls.extraction + calls.filter + calls.synthesis + calls.synthesis_noev

OfflinePath == offline \/ ~(api_key \/ env_key)

PatternOnly(r) == r.model_used = "offline" /\ r.awards = "pattern_awards" /\ r.evidence = <<>>

SynthesisErrorTexts == {"Failed to generate awards", "No awards found in response"}

\* C1: whatever fails (a provider call, the extraction of a chunk, the
\* synthesis, the credentials) and also in offline mode, no exception leaves
\* generate_unwrapped_with_fallback, the call never stops before it returns,
\* and what it returns has success = True.
NeverRaisesAndSucceeds ==
    /\ raised = "none"
    /\ ppc = "done" \/ ENABLED Next
    /\ ppc = "done" => result # <<>> /\ result[1].success

\* a run in which extraction, the filter and the synthesis all failed
AllStagesFailedWitness ==
    /\ Finished
    /\ \E i \in DOMAIN gchunks : <<"extraction", "error", i>> \in incidents
    /\ <<"filter", "error", 0>> \in incidents
    /\ <<"synthesis", "error", 0>> \in incidents
    /\ result[1].success

\* C2, as stated: a run that attempted an external call never returns
\* model_used = "offline".
OfflineOnlyWithoutCalls ==
    Finished /\ result[1].model_used = "offline" => ExternalCalls = 0

\* C2, amended: model_used = "offline" without an error is returned only on
\* the offline / no-credentials path, by a run that made no external call; a
\* run that attempted external calls returns "offline" only together with the
\* text of the error that ended the pipeline, and a run that made no external
\* call always returns "offline".
OfflineAfterCallsCarriesError ==
    Finished =>
        /\ ExternalCalls = 0 <=> OfflinePath
        /\ ExternalCalls = 0 => PatternOnly(result[1]) /\ result[1].error = "none"
        /\ ExternalCalls > 0 /\ result[1].model_used = "offline" =>
               result[1].error \in SynthesisErrorTexts \cup {"Unexpected error"}
        /\ result[1].error = "none" /\ ExternalCalls > 0 =>
               result[1].model_used = ModelName(provider)

OfflineAfterCallsWitness ==
    /\ Finished
    /\ result[1].model_used = "offline"
    /\ calls.extraction > 0
    /\ calls.synthesis > 0
    /\ result[1].error \in SynthesisErrorTexts

\* C3, as stated: a provider error at any stage (extraction, quality filter,
\* synthesis) ends in the pattern-only result.
ProviderErrorMeansPatternOnly ==
    Finished /\ (\E inc \in incidents : inc[2] = "error") => PatternOnly(result[1])

\* C3, amended: a provider error of the synthesis call ends in the
\* pattern-only result, with the synthesis error as its text; a provider
\* error of an extraction call or of a quality-filter call is recovered
\* where it happens (an empty packet for the chunk, the next filter strategy
\* or the unfiltered evidence), and when the synthesis then returns awards
\* the result is the full one.
OnlySynthesisProviderErrorDegrades ==
    Finished =>
        /\ <<"synthesis", "error", 0>> \in incidents =>
               PatternOnly(result[1]) /\ result[1].error = "Failed to generate awards"
        /\ (/\ \E inc \in incidents : inc[2] = "error"
            /\ \A inc \in incidents : inc[1] \in {"extraction", "filter"}
            /\ calls.synthesis > 0) =>
               /\ result[1].model_used = ModelName(provider)
               /\ result[1].awards = "synthesis_awards"
               /\ result[1].evidence = evidence
               /\ result[1].error = "none"

ProviderErrorRecoveredWitness ==
    /\ Finished
    /\ \E i \in DOMAIN gchunks : <<"extraction", "error", i>> \in incidents
    /\ <<"filter", "error", 0>> \in incidents
    /\ result[1].model_used = ModelName(provider)
    /\ result[1].evidence # <<>>
    /\ result[1].evidence[1].filter = "unfiltered"

\* C4, as stated: a synthesis failure of the full pipeline is followed by a
\* synthesis call without evidence before the pattern-only result.
SynthesisFailureRetriesWithoutEvidence ==
    Finished /\ result[1].error \in SynthesisErrorTexts => calls.synthesis_noev > 0

\* C4, amended: a synthesis failure of the full pipeline (after the one
\* retry inside generate_awards for a response without awards, none for a
\* provider error) goes straight to the pattern-only result carrying the
\* synthesis error; no synthesis without evidence is ever attempted.
SynthesisFailureGoesOffline ==
    /\ ppc # "synthesis_noev"
    /\ calls.synthesis_noev = 0
    /\ calls.synthesis <= MAX_RETRIES + 1
    /\ Finished /\ (\E inc \in incidents : inc[1] = "synthesis") =>
           \/ /\ PatternOnly(result[1])
              /\ result[1].error \in SynthesisErrorTexts
           \/ /\ calls.synthesis = MAX_RETRIES + 1
              /\ <<"synthesis", "error", 0>> \notin incidents
              /\ result[1].model_used = ModelName(provider)

SynthesisFailedWitness ==
    /\ Finished
    /\ calls.synthesis = MAX_RETRIES + 1
    /\ result[1].error = "No awards found in response"
    /\ PatternOnly(result[1])
    /\ calls.synthesis_noev = 0

\* C5: when the evidence stage fails for a reason that is no provider failure
\* (the aggregation of a response whose field has the wrong type), the
\* synthesis is called without evidence, and when that call returns awards
\* the result has no evidence, the synthesis-only model name and the text of
\* the evidence failure.
EvidenceFailureRetriesSynthesis ==
    Finished /\ ExternalCalls > 0 /\ AggregateRaises(packets) =>
        /\ calls.synthesis_noev > 0
        /\ result[1].model_used \in {"offline", SynthesisOnlyModelName(provider)}
        /\ result[1].model_used # "offline" =>
               /\ result[1].evidence = <<>>
               /\ result[1].error = "Evidence gathering failed"

\* the chunks whose extraction ended in a provider error
FailedChunks == {i \in DOMAIN gchunks : <<"extraction", "error", i>> \in incidents}

\* C6: when the extraction of some chunks fails, the responses of the others
\* are usable and every later call succeeds, the evidence is aggregated from
\* the packets of the other chunks and the result is the full one: success,
\* the model name of the provider, no error.
FailedChunkDoesNotDegrade ==
    (/\ Finished
     /\ FailedChunks # {}
     /\ \A inc \in incidents : inc[1] = "extraction"
     /\ Len(packets) = Len(gchunks)
     /\ ~AggregateRaises(packets)) =>
        /\ result[1].success
        /\ result[1].model_used = ModelName(provider)
        /\ result[1].error = "none"
        /\ result[1].evidence # <<>>
        /\ result[1].evidence[1].from =
               {i \in DOMAIN packets : packets[i].items > 0}
        /\ result[1].evidence[1].from \cap FailedChunks = {}

FailedChunkWitness ==
    /\ Finished
    /\ Len(gchunks) = 3
    /\ FailedChunks = {2}
    /\ result[1].evidence # <<>>
    /\ result[1].evidence[1].from = {1, 3}
    /\ result[1].model_used = ModelName(provider)
    /\ result[1].error = "none"

\* C18: one run makes at most 2 extraction calls for each chunk, at most 2
\* calls of the quality filter and at most 2 synthesis calls, whichever path
\* it takes: at most 2n + 4 external calls for n chunks.
ExternalCallsBounded ==
    /\ calls.extraction <= 2 * Len(packets)
    /\ Len(packets) <= Len(gchunks)
    /\ calls.filter <= 2
    /\ calls.synthesis + calls.synthesis_noev <= 2
    /\ ExternalCalls <= 2 * Len(gchunks) + 4

\* every call site used its retry
EveryRetryUsedWitness ==
    /\ Finished
    /\ Len(gchunks) = MaxSegments
    /\ calls.extraction = 2 * Len(gchunks)
    /\ calls.filter = 2
    /\ calls.synthesis = 2

(***************************************************************************)
(* aggregation.py: aggregate_evidence, one category at a time              *)
(*                                                                         *)
(* An item is modelled by its position in its packet and by the text of    *)
(* the field the category is deduplicated on: a number, 0 for an empty or  *)
(* missing field.  Two texts are near-duplicates (similarity above         *)
(* SIMILARITY_THRESHOLD) when the numbers differ by at most 1: like        *)
(* SequenceMatcher's ratio the relation is reflexive and symmetric and not *)
(* transitive.  The style notes of one person are the category             *)
(* "style_notes".                                                          *)
(***************************************************************************)
MaxAggPackets == 3
MaxExcess == 2

MAX_QUOTES == 30
MAX_INSIDE_JOKES == 20
MAX_DYNAMICS == 15
MAX_FUNNY_MOMENTS == 20
MAX_STYLE_NOTES_PER_PERSON == 8
MAX_AWARD_IDEAS == 30
MAX_SNIPPETS == 15
MAX_CONTRADICTIONS == 10
MAX_ROASTS == 15

Categories ==
    {"notable_quotes", "inside_jokes", "dynamics", "funny_moments", "award_ideas",
     "conversation_snippets", "contradictions", "roasts", "style_notes"}

\* lines 84-92 and _merge_style_notes, line 284: the cap of each category
Cap(c) ==
    CASE c = "notable_quotes" -> MAX_QUOTES
      [] c = "inside_jokes" -> MAX_INSIDE_JOKES
      [] c = "dynamics" -> MAX_DYNAMICS
      [] c = "funny_moments" -> MAX_FUNNY_MOMENTS
      [] c = "style_notes" -> MAX_STYLE_NOTES_PER_PERSON
      [] c = "award_ideas" -> MAX_AWARD_IDEAS
      [] c = "conversation_snippets" -> MAX_SNIPPETS
      [] c = "contradictions" -> MAX_CONTRADICTIONS
      [] OTHER -> MAX_ROASTS

\* _similarity(a, b) > SIMILARITY_THRESHOLD
Similar(a, b) == a - b \in {-1, 0, 1}

\* seq[:n]
Prefix(seq, n) == SubSeq(seq, 1, IF n < Len(seq) THEN n ELSE Len(seq))

\* lines 52-71: the items of the first n packets, each with its chunk_idx
RECURSIVE CollectItems(_, _)
CollectItems(pk, n) ==
    IF n = 0 THEN <<>>
    ELSE CollectItems(pk, n - 1) \o
         [j \in 1..Len(pk[n]) |->
             [chunk_idx |-> n - 1, pos |-> pk[n][j].pos, text |-> pk[n][j].text]]

\* sorted(by_chunk.keys()): the chunk indices of the items, ascending
RECURSIVE SortedSeq(_)
SortedSeq(S) ==
    IF S = {} THEN <<>>
    ELSE LET least == CHOOSE x \in S : \A y \in S : x <= y
         IN  <<least>> \o SortedSeq(S \ {least})

ChunkIndices(items) == SortedSeq({items[j].chunk_idx : j \in DOMAIN items})

\* by_chunk[chunk_idx]
ByChunk(items, chunk_idx) == SelectSeq(items, LAMBDA it : it.chunk_idx = chunk_idx)

\* _temporal_sample, lines 134-141: what the i-th chunk may contribute
TakeOf(i, num_chunks, max_count) ==
    LET base_per_chunk == max_count \div num_chunks
        extra == max_count % num_chunks
    IN  base_per_chunk + (IF i >= num_chunks - extra THEN 1 ELSE 0)

\* random.sample(chunk_items, take): take distinct positions, in any order
Selections(n, take) ==
    {f \in [1..take -> 1..n] : \A a, b \in 1..take : a # b => f[a] # f[b]}

\* the loop with an item compared to the last kept item only
DedupStepLastOnly(res, item) ==
    IF item.text = 0 THEN res
    ELSE IF res # <<>> /\ Similar(item.text, res[Len(res)].text) THEN res
    ELSE Append(res, item)

\* _deduplicate_quotes, _deduplicate_strings, _deduplicate_by_field,
\* _deduplicate_snippets: one pass of the loop over the items
DedupStep(res, item) ==
    IF item.text = 0 THEN res
    ELSE IF \E j \in DOMAIN res : Similar(item.text, res[j].text) THEN res
    ELSE Append(res, item)

\* the loop over items[lo..hi], started with res; the range is halved, and
\* the first half evaluated before the second, to keep the evaluation shallow
\* (the result of the first half is never longer than that half's end)
RECURSIVE DedupFrom(_, _, _, _)
DedupFrom(items, lo, hi, res) ==
    IF lo > hi THEN res
    ELSE IF lo = hi THEN DedupStep(res, items[lo])
    ELSE LET mid == (lo + hi) \div 2
             done == DedupFrom(items, lo, mid, res)
         IN  IF Len(done) <= mid THEN DedupFrom(items, mid + 1, hi, done) ELSE <<>>

Deduplicate(items) == DedupFrom(items, 1, Len(items), <<>>)

\* _rank_inside_jokes, lines 254-269: one pass of the loop; the entries of
\* reference_counts in insertion order, each with the joke it came from
CountStep(counts, joke) ==
    IF joke.text = 0 THEN counts
    ELSE IF \E j \in DOMAIN counts : Similar(joke.text, counts[j].joke.text)
    THEN LET first == CHOOSE j \in DOMAIN counts :
                          /\ Similar(joke.text, counts[j].joke.text)
                          /\ \A h \in 1..(j - 1) : ~Similar(joke.text, counts[h].joke.text)
         IN  [counts EXCEPT ![first].count = @ + 1]
    ELSE Append(counts, [joke |-> joke, count |-> 1])

RECURSIVE CountFrom(_, _, _, _)
CountFrom(jokes, lo, hi, counts) ==
    IF lo > hi THEN counts
    ELSE IF lo = hi THEN CountStep(counts, jokes[lo])
    ELSE LET mid == (lo + hi) \div 2
             done == CountFrom(jokes, lo, mid, counts)
         IN  IF Len(done) <= mid THEN CountFrom(jokes, mid + 1, hi, done) ELSE <<>>

\* Counter.most_common(): by count, descending; equal counts stay in
\* insertion order
RECURSIVE MostCommon(_)
MostCommon(counts) ==
    IF counts = <<>> THEN <<>>
    ELSE LET top == CHOOSE j \in DOMAIN counts :
                        /\ \A h \in DOMAIN counts : counts[h].count <= counts[j].count
                        /\ \A h \in 1..(j - 1) : counts[h].count < counts[j].count
         IN  <<counts[top]>> \o
             MostCommon(SubSeq(counts, 1, top - 1) \o SubSeq(counts, top + 1, Len(counts)))

RankInsideJokes(jokes) ==
    LET ranked == MostCommon(CountFrom(jokes, 1, Len(jokes), <<>>))
    IN  [j \in DOMAIN ranked |-> ranked[j].joke]

\* the result without the [:MAX_...] slice
CategoryResultUncapped(c, items) ==
    IF c = "inside_jokes" THEN RankInsideJokes(items) ELSE Deduplicate(items)

\* aggregate_evidence, lines 84-92, and _merge_style_notes, lines 283-284
CategoryResult(c, items) ==
    IF c = "inside_jokes"
    THEN Prefix(RankInsideJokes(items), Cap(c))
    ELSE Prefix(Deduplicate(items), Cap(c))

\* lines 74-81: max_count of the category's _temporal_sample call
MaxCount(c) == Cap(c) * 2

\* lines 38-71 and _temporal_sample, lines 120-135
AggCollect ==
    /\ apc = "call"
    /\ IF apackets = <<>>
       THEN \* _create_empty_evidence
            /\ aggregated' = << <<>> >>
            /\ apc' = "done"
            /\ UNCHANGED <<items_with_idx, sampled>>
       ELSE LET items == CollectItems(apackets, Len(apackets))
            IN  /\ items_with_idx' = items
                /\ aggregated' = aggregated
                /\ IF category = "style_notes" \/ Len(items) <= MaxCount(category)
                   THEN sampled' = items /\ apc' = "dedupe"
                   ELSE sampled' = <<>> /\ apc' = "sample"
    /\ UNCHANGED <<category, apackets, sample_i>>
    /\ UNCHANGED notAgg

\* _temporal_sample, lines 138-149: one pass of the loop over the chunks
SampleChunk ==
    /\ apc = "sample"
    /\ LET chunk_indices == ChunkIndices(items_with_idx)
           num_chunks == Len(chunk_indices)
           chunk_items == ByChunk(items_with_idx, chunk_indices[sample_i + 1])
           take == TakeOf(sample_i, num_chunks, MaxCount(category))
       IN  /\ IF Len(chunk_items) <= take
              THEN sampled' = sampled \o chunk_items
              ELSE \E sel \in Selections(Len(chunk_items), take) :
                       sampled' = sampled \o [j \in 1..take |-> chunk_items[sel[j]]]
           /\ sample_i' = sample_i + 1
           /\ apc' = IF sample_i + 1 = num_chunks THEN "dedupe" ELSE "sample"
    /\ UNCHANGED <<category, apackets, items_with_idx, aggregated>>
    /\ UNCHANGED notAgg

\* aggregate_evidence, lines 84-104
AggReturn ==
    /\ apc = "dedupe"
    /\ aggregated' = <<CategoryResult(category, sampled)>>
    /\ apc' = "done"
    /\ UNCHANGED <<category, apackets, items_with_idx, sample_i, sampled>>
    /\ UNCHANGED notAgg

\* the texts of the items of the packets: all different, each like the one
\* before it, the same in every packet, every other one empty
TextPatterns == {"distinct", "chain", "repeat", "blank"}

ItemText(pattern, i, p) ==
    CASE pattern = "distinct" -> 3 * (64 * i + p) + 3
      [] pattern = "chain" -> 200 * i + p + 1
      [] pattern = "repeat" -> 3 * p + 3
      [] OTHER -> IF p % 2 = 0 THEN 0 ELSE 3 * (64 * i + p) + 3

\* few packets: none, one, or more than half the cap of items each
FewPackets(cap) ==
    UNION {[1..k -> {0, 1, cap \div 2 + 1}] : k \in 0..MaxAggPackets}

\* as many packets as the cap, two items each and more in one of them
SpreadPackets(cap) ==
    {[i \in 1..cap |-> IF i = heavy THEN 2 + excess ELSE 2] :
         heavy \in {1, cap \div 2 + 1, cap}, excess \in 1..MaxExcess}

AggInit ==
    /\ category \in Categories
    /\ \E pattern \in TextPatterns :
       \E counts \in FewPackets(Cap(category)) \cup SpreadPackets(Cap(category)) :
           apackets = [i \in DOMAIN counts |->
                          [p \in 1..counts[i] |->
                              [pos |-> p - 1, text |-> ItemText(pattern, i - 1, p - 1)]]]
    /\ items_with_idx = <<>>
    /\ sample_i = 0
    /\ sampled = <<>>
    /\ aggregated = <<>>
    /\ apc = "call"
    /\ ChunkIdle
    /\ GatherIdle
    /\ PipeIdle
    /\ FilterIdle
    /\ SynthIdle
    /\ PatternIdle
    /\ ExtractIdle
    /\ PoolIdle
    /\ RunIdle

AggNext ==
    \/ AggCollect
    \/ SampleChunk
    \/ AggReturn

SpecAggregate == AggInit /\ [][AggNext]_vars

(***************************************************************************)
(* Properties of aggregate_evidence                                        *)
(***************************************************************************)
Aggregated == apc = "done" /\ aggregated # <<>>

Eligible(item) == item.text # 0

\* item a was seen before item b: an earlier chunk, or earlier in the chunk
SeenBefore(a, b) ==
    a.chunk_idx < b.chunk_idx \/ (a.chunk_idx = b.chunk_idx /\ a.pos < b.pos)

NoNearDuplicates(items) ==
    \A a, b \in DOMAIN items : a # b => ~Similar(items[a].text, items[b].text)

ChunksOf(items) == {items[j].chunk_idx : j \in DOMAIN items}

\* C11: when a category holds more items than its cap, all of them eligible
\* and no two of them near-duplicates, from at most as many chunks as the
\* cap, every chunk that contributed items has an item in the aggregated
\* category.
EveryChunkRepresented ==
    (/\ Aggregated
     /\ Len(items_with_idx) > Cap(category)
     /\ \A j \in DOMAIN items_with_idx : Eligible(items_with_idx[j])
     /\ NoNearDuplicates(items_with_idx)
     /\ Cardinality(ChunksOf(items_with_idx)) <= Cap(category)) =>
        ChunksOf(aggregated[1]) = ChunksOf(items_with_idx)

CategoryWithinCap ==
    Aggregated =>
        /\ Len(aggregated[1]) <= Cap(category)
        /\ Len(aggregated[1]) <=
               CASE category = "notable_quotes" -> 30
                 [] category = "inside_jokes" -> 20
                 [] category = "dynamics" -> 15
                 [] category = "funny_moments" -> 20
                 [] category = "award_ideas" -> 30
                 [] category = "conversation_snippets" -> 15
                 [] category = "contradictions" -> 10
                 [] category = "roasts" -> 15
                 [] OTHER -> 8

\* more items than twice the cap came in, sampled and cut to the cap
CategoryCutWitness ==
    /\ Aggregated
    /\ Len(items_with_idx) > MaxCount(category)
    /\ Len(sampled) = MaxCount(category)
    /\ Len(aggregated[1]) = Cap(category)
    /\ category = "notable_quotes"

(***************************************************************************)
(* quality_filter.py: filter_evidence_by_quality                           *)
(*                                                                         *)
(* An item of the evidence is a positive number.  In what the judge        *)
(* returns, 0 is an item that is not in the evidence and -1 an item that   *)
(* is falsy (None, an empty string).                                       *)
(***************************************************************************)
MaxFilterItems == 3

\* _count_evidence: the categories that are counted and filtered
FilteredCategories == Categories \ {"style_notes"}

\* the items n of them stand for
ItemsUpTo(n) == [j \in 1..n |-> j]

RECURSIVE SumLens(_, _)
SumLens(ev, cats) ==
    IF cats = {} THEN 0
    ELSE LET c == CHOOSE x \in cats : TRUE
         IN  Len(ev[c]) + SumLens(ev, cats \ {c})

\* lines 160-164: total_items
TotalItems(ev) == SumLens(ev, FilteredCategories)

\* a value of the judge's JSON object under a category's key: <<>> when the
\* key is missing or holds no list, else the list
FullValues(items) ==
    {<<>>, << <<>> >>, <<items>>, <<Prefix(items, 1)>>, <<items \o <<0>> >>,
     << <<-1>> \o items>>}

\* one key holds a value of its own, the other keys are all missing, all
\* empty lists or, with whole = TRUE, all the whole list
JudgeData(ev, target, value, rest, whole) ==
    [c \in FilteredCategories |->
        IF c = target THEN value
        ELSE IF rest = "missing" THEN <<>>
        ELSE IF whole THEN <<ev[c]>> ELSE << <<>> >>]

\* _parse_filtered_response.safe_list
SafeList(value, original_list) ==
    IF value # <<>> THEN value[1] ELSE original_list

\* _parse_filtered_response.safe_string_list
SafeStringList(value, original_list) ==
    IF value # <<>> THEN SelectSeq(value[1], LAMBDA item : item # -1)
    ELSE original_list

\* _parse_filtered_response
ParseFilteredResponse(data, original) ==
    [c \in Categories |->
        IF c = "style_notes" THEN original[c]
        ELSE IF c = "dynamics" THEN SafeStringList(data[c], original[c])
        ELSE SafeList(data[c], original[c])]

\* an entry of an index list as json.loads gives it: its JSON type, whether
\* isinstance(i, int) holds of it, and its value as an int.  A JSON number
\* without fraction is an int; true and false are the bool (an int
\* subclass) of value 1 and 0; a string or a number with a fraction is no int
IndexEntry(v) == [json |-> "number", int |-> TRUE, v |-> v]
NotAnInt == [json |-> "string", int |-> FALSE, v |-> 0]
BoolEntry(b) == [json |-> "boolean", int |-> TRUE, v |-> IF b THEN 1 ELSE 0]

IndexValues(items) ==
    {<<>>, << <<>> >>, << <<IndexEntry(0)>> >>, << <<IndexEntry(0), IndexEntry(0)>> >>,
     << <<IndexEntry(-1), NotAnInt, IndexEntry(Len(items)), IndexEntry(Len(items) - 1)>> >>,
     <<[j \in 1..Len(items) |-> IndexEntry(j - 1)]>>,
     << <<BoolEntry(FALSE), BoolEntry(TRUE)>> >>}

\* _apply_index_filter.filter_by_indices
FilterByIndices(items, indices) ==
    IF indices = <<>> THEN items
    ELSE LET valid_indices == SelectSeq(indices[1],
                                  LAMBDA i : i.int /\ 0 <= i.v /\ i.v < Len(items))
         IN  [j \in 1..Len(valid_indices) |-> items[valid_indices[j].v + 1]]

\* _apply_index_filter
ApplyIndexFilter(data, original) ==
    [c \in Categories |->
        IF c = "style_notes" THEN original[c]
        ELSE FilterByIndices(original[c], data[c])]

\* lines 206-208 with the evidence emptied
EmptiedEvidence(ev) == [c \in Categories |-> <<>>]

\* lines 206-208: the evidence as it came in
UnfilteredEvidence(ev) == ev

\* lines 160-189: too few items, or the judge asked for the filtered lists
QualityFilterFull ==
    /\ fpc = "call"
    /\ IF TotalItems(fevidence) < MIN_FILTER_ITEMS
       THEN /\ filtered' = <<fevidence>>
            /\ fpc' = "done"
            /\ UNCHANGED <<judge_calls, judge_failures, judge_data>>
       ELSE /\ judge_calls' = judge_calls + 1
            /\ \/ /\ judge_failures' = judge_failures + 1
                  /\ fpc' = "index"
                  /\ filtered' = filtered
                  /\ judge_data' = judge_data
               \/ \E target \in FilteredCategories, rest \in {"missing", "list"} :
                  \E value \in FullValues(fevidence[target]) :
                      /\ judge_data' = <<JudgeData(fevidence, target, value, rest, TRUE)>>
                      /\ filtered' = <<ParseFilteredResponse(judge_data'[1], fevidence)>>
                      /\ fpc' = "done"
                      /\ judge_failures' = judge_failures
    /\ UNCHANGED fevidence
    /\ UNCHANGED notFilter

\* lines 191-208: the judge asked for the indices to keep
QualityFilterIndex ==
    /\ fpc = "index"
    /\ judge_calls' = judge_calls + 1
    /\ \/ /\ judge_failures' = judge_failures + 1
          /\ filtered' = <<UnfilteredEvidence(fevidence)>>
          /\ judge_data' = judge_data
       \/ \E target \in FilteredCategories, rest \in {"missing", "list"} :
          \E value \in IndexValues(fevidence[target]) :
              /\ judge_data' = <<JudgeData(fevidence, target, value, rest, FALSE)>>
              /\ filtered' = <<ApplyIndexFilter(judge_data'[1], fevidence)>>
              /\ judge_failures' = judge_failures
    /\ fpc' = "done"
    /\ UNCHANGED fevidence
    /\ UNCHANGED notFilter

FilterInit ==
    /\ \E quotes \in 0..MaxFilterItems, dynamics \in 0..MaxFilterItems :
       \E others \in 0..1, notes \in 0..1 :
           fevidence = [c \in Categories |->
                           IF c = "notable_quotes" THEN ItemsUpTo(quotes)
                           ELSE IF c = "dynamics" THEN ItemsUpTo(dynamics)
                           ELSE IF c = "style_notes" THEN ItemsUpTo(notes)
                           ELSE ItemsUpTo(others)]
    /\ filtered = <<>>
    /\ judge_calls = 0
    /\ judge_failures = 0
    /\ judge_data = <<>>
    /\ fpc = "call"
    /\ ChunkIdle
    /\ GatherIdle
    /\ PipeIdle
    /\ AggIdle
    /\ SynthIdle
    /\ PatternIdle
    /\ ExtractIdle
    /\ PoolIdle
    /\ RunIdle

FilterNext ==
    \/ QualityFilterFull
    \/ QualityFilterIndex

SpecFilter == FilterInit /\ [][FilterNext]_vars

(***************************************************************************)
(* Properties of filter_evidence_by_quality                                *)
(***************************************************************************)
Filtered == fpc = "done" /\ filtered # <<>>

ItemsOf(seq) == {seq[j] : j \in DOMAIN seq}

\* C14: when the request for the filtered lists and the request for the
\* indices both fail, filter_evidence_by_quality returns (it does not
\* raise) the evidence it was given: every category holds exactly the items
\* it held.
BothStrategiesFailKeepsEvidence ==
    /\ fpc = "done" => filtered # <<>>
    /\ Filtered /\ judge_failures = 2 => filtered[1] = fevidence

BothStrategiesFailedWitness ==
    /\ Filtered
    /\ judge_calls = 2
    /\ judge_failures = 2
    /\ TotalItems(fevidence) >= MIN_FILTER_ITEMS
    /\ filtered[1] = fevidence
    /\ fevidence["notable_quotes"] # <<>>

\* C15: whichever strategy produced it, every category of the result holds
\* only items of the same category of the input, and no more items than it.
FilterOnlyRemoves ==
    Filtered =>
        \A c \in Categories :
            /\ ItemsOf(filtered[1][c]) \subseteq ItemsOf(fevidence[c])
            /\ Len(filtered[1][c]) <= Len(fevidence[c])

IndexStrategyApplied == Filtered /\ judge_calls = 2 /\ judge_failures = 1

\* the items at the entries of the list that are integers within the bounds
\* of items
AtIntegersInBounds(items, indices) ==
    LET applied == SelectSeq(indices, LAMBDA i : i.json = "number" /\ i.int
                                                  /\ 0 <= i.v /\ i.v < Len(items))
    IN  [j \in 1..Len(applied) |-> items[applied[j].v + 1]]

\* C25: the index strategy keeps of a category, when the judge returned a
\* list for it, exactly the items at the entries that are integers within
\* the bounds of the original list; any other entry is ignored, and nothing
\* outside the original list is selected.
OnlyIntegersInBoundsApplied ==
    IndexStrategyApplied =>
        \A c \in FilteredCategories :
            /\ ItemsOf(filtered[1][c]) \subseteq ItemsOf(fevidence[c])
            /\ judge_data[1][c] # <<>> =>
                   filtered[1][c] = AtIntegersInBounds(fevidence[c], judge_data[1][c][1])

(***************************************************************************)
(* generator.py: generate_awards, _parse_awards, _get_issues               *)
(*                                                                         *)
(* A participant is a number from 1.  A recipient string is modelled by    *)
(* the participant it names (0: none) and by its spelling: spelling 1 is   *)
(* the participant's name as given, another spelling differs in case or    *)
(* is a part of the name.  Two recipient strings are equal when both are.  *)
(* An evidence string is modelled by what the patterns of                  *)
(* _has_specific_evidence find in it, a quip by its number of words.       *)
(***************************************************************************)
MaxAwards == 7
MaxParticipants == 2

REQUIRED_AWARDS == 6
MAX_PER_RECIPIENT == 4
MAX_QUIP_WORDS == 20

\* build_synthesis_prompt, "Your Task": the number of awards asked for, the
\* awards per person it accepts, and the quip length of the system prompt
PROMPT_AWARDS == 10
PROMPT_MIN_PER_PERSON == 4
PROMPT_MAX_PER_PERSON == 6
PROMPT_QUIP_WORDS == 15

\* what an evidence string holds: nothing the patterns look for, a number, a
\* quoted text, a time of day (which has a digit)
EvidenceKinds == {"plain", "digit", "quoted", "time"}

\* _has_specific_evidence
HasSpecificEvidence(ev) == ev \in {"digit", "quoted", "time"}

\* _get_issues, lines 175-186: the recipient is a participant's name in lower
\* case, or holds one, or is held by one
Recognised(recipient, parts) == recipient.who \in parts

\* _get_issues, lines 166-168: recipient_counts[recipient]
RecipientCount(aw, recipient) ==
    Cardinality({j \in DOMAIN aw : aw[j].recipient = recipient})

\* _get_issues: the issues found, each with the award or recipient it is about
GetIssues(aw, parts) ==
    (IF Len(aw) # REQUIRED_AWARDS THEN {<<"count", Len(aw)>>} ELSE {})
    \cup {<<"balance", aw[j].recipient>> :
             j \in {h \in DOMAIN aw : RecipientCount(aw, aw[h].recipient) > MAX_PER_RECIPIENT}}
    \cup {<<"unknown recipient", j>> :
             j \in {h \in DOMAIN aw : ~Recognised(aw[h].recipient, parts)}}
    \cup {<<"evidence", j>> : j \in {h \in DOMAIN aw : ~HasSpecificEvidence(aw[h].evidence)}}
    \cup {<<"quip", j>> : j \in {h \in DOMAIN aw : aw[h].quip_words > MAX_QUIP_WORDS}}

\* _parse_awards: the awards of the response, or the error raised; an entry is
\* kept when it is a dict with a title and a recipient
ParseAwards(data) ==
    IF data.type = "other"
    THEN [awards |-> <<>>, error |-> "Unexpected response format"]
    ELSE IF data.awards_data = <<>>
    THEN [awards |-> <<>>, error |-> "No awards found in response"]
    ELSE LET kept == SelectSeq(data.awards_data, LAMBDA d : d.named)
         IN  IF kept = <<>>
             THEN [awards |-> <<>>, error |-> "No valid awards could be parsed from response"]
             ELSE [awards |-> <<[j \in DOMAIN kept |->
                                   [recipient |-> kept[j].recipient,
                                    evidence |-> kept[j].evidence,
                                    quip_words |-> kept[j].quip_words]]>>,
                   error |-> "none"]

\* what a pass of the loop ends in, from the response of its call
PassOutcome(response, parts) ==
    IF response.raises THEN "error"
    ELSE LET parsed == ParseAwards(response.data)
         IN  IF parsed.awards = <<>> THEN "unparsable"
             ELSE IF GetIssues(parsed.awards[1], parts) = {} THEN "valid"
             ELSE "invalid"

\* line 46: the issues the retry prompt lists
RetryIssues(aw, parts) ==
    IF aw # <<>> THEN GetIssues(aw[1], parts) ELSE {<<"Failed to parse response", 0>>}

\* generate_awards, lines 39-84: one pass of the loop
GenerateAwardsPass(response) ==
    /\ ga_pc = "loop"
    /\ LET outcome == PassOutcome(response, participants)
           parsed == IF response.raises THEN <<>> ELSE ParseAwards(response.data).awards
           step == GenerateAwardsStep(ga_attempt, outcome)
           feedback == IF ga_attempt = 0 THEN <<>>
                       ELSE <<RetryIssues(awards, participants)>>
       IN  /\ awards' = IF parsed # <<>> THEN parsed ELSE awards
           /\ ga_passes' = Append(ga_passes,
                  [feedback |-> feedback, outcome |-> outcome, parsed |-> parsed])
           /\ ga_attempt' = IF step = "retry" THEN ga_attempt + 1 ELSE ga_attempt
           /\ ga_returned' = IF step = "return" THEN parsed ELSE ga_returned
           /\ ga_raised' = IF step # "raise" THEN ga_raised
                           ELSE IF outcome = "error" THEN "Failed to generate awards"
                           ELSE ParseAwards(response.data).error
           /\ ga_pc' = CASE step = "retry" -> "loop"
                         [] step = "return" -> "returned"
                         [] OTHER -> "raised"
    /\ UNCHANGED participants
    /\ UNCHANGED notSynth

\* who the awards of a response go to: the participants in turn, one
\* participant, one participant under two spellings, a stranger first
RecipientPatterns == {"in turn", "one", "two spellings", "stranger"}

RecipientOf(pattern, j) ==
    CASE pattern = "in turn" -> [who |-> 1 + (j % MaxParticipants), spelling |-> 1]
      [] pattern = "one" -> [who |-> 1, spelling |-> 1]
      [] pattern = "two spellings" -> [who |-> 1, spelling |-> 1 + (j % 2)]
      [] OTHER -> IF j = 1 THEN [who |-> 0, spelling |-> 1]
                  ELSE [who |-> 1 + (j % MaxParticipants), spelling |-> 1]

\* a response of n entries: the first with the given evidence and quip, the
\* others with a number as evidence and a short quip; the first entry, or
\* every entry, without a title
AwardsData(n, pattern, ev, quip_words, unnamed) ==
    [j \in 1..n |->
        [recipient |-> RecipientOf(pattern, j),
         evidence |-> IF j = 1 THEN ev ELSE "digit",
         quip_words |-> IF j = 1 THEN quip_words ELSE 3,
         named |-> ~(unnamed = "all" \/ (unnamed = "first" /\ j = 1))]]

Responses ==
    {[raises |-> TRUE, data |-> [type |-> "other", awards_data |-> <<>>]],
     [raises |-> FALSE, data |-> [type |-> "other", awards_data |-> <<>>]]}
    \cup {[raises |-> FALSE,
           data |-> [type |-> "list",
                     awards_data |-> AwardsData(n, pattern, ev, quip_words, unnamed)]] :
             n \in {0, 1, REQUIRED_AWARDS, MaxAwards, PROMPT_AWARDS},
             pattern \in RecipientPatterns,
             ev \in EvidenceKinds,
             quip_words \in {3, MAX_QUIP_WORDS + 1},
             unnamed \in {"none", "first", "all"}}

SynthInit ==
    /\ participants \in {1..n : n \in 1..MaxParticipants}
    /\ awards = <<>>
    /\ ga_attempt = 0
    /\ ga_passes = <<>>
    /\ ga_returned = <<>>
    /\ ga_raised = "none"
    /\ ga_pc = "loop"
    /\ ChunkIdle
    /\ GatherIdle
    /\ PipeIdle
    /\ AggIdle
    /\ FilterIdle
    /\ PatternIdle
    /\ ExtractIdle
    /\ PoolIdle
    /\ RunIdle

SynthNext == \E response \in Responses : GenerateAwardsPass(response)

SpecSynthesis == SynthInit /\ [][SynthNext]_vars

AwardsTo(aw, who) == Cardinality({j \in DOMAIN aw : aw[j].recipient.who = who})

\* C17: _get_issues reports an issue for parsed awards one of which has
\* evidence without a digit, a quoted text or a time, or more than 4 of
\* which go to one participant, or one of which goes to somebody who is not
\* recognised as a participant.
ValidationReportsIssues ==
    (/\ awards # <<>>
     /\ \/ \E j \in DOMAIN awards[1] : awards[1][j].evidence = "plain"
        \/ \E who \in participants : AwardsTo(awards[1], who) > MAX_PER_RECIPIENT
        \/ \E j \in DOMAIN awards[1] : ~Recognised(awards[1][j].recipient, participants)) =>
        GetIssues(awards[1], participants) # {}

(***************************************************************************)
(* orchestrator.py: generate_unwrapped_offline and _create_pattern_awards. *)
(* A pattern is modelled by its person: the pattern type and description   *)
(* only choose the title and the evidence text of the award.               *)
(***************************************************************************)
MaxPatterns == 7

\* the number of awards _create_pattern_awards aims at
PATTERN_AWARDS == 6

max_per_person == 4

\* the senders a pattern can name
People == {"ann", "bob", "cat"}

\* stats.basic.messages_per_person.keys(): distinct names
ParticipantLists ==
    {l \in SeqsUpTo({"ann", "bob"}, 2) :
        \A i, j \in DOMAIN l : l[i] = l[j] => i = j}

\* min(participants, key=lambda p: awards_per_person.get(p, 0)): the first
\* participant of the list with the fewest awards
MinPerson(parts, counts) ==
    parts[CHOOSE i \in DOMAIN parts :
              /\ \A j \in DOMAIN parts : counts[parts[i]] <= counts[parts[j]]
              /\ \A j \in 1..(i - 1) : counts[parts[i]] < counts[parts[j]]]

\* the backfill loop never entered
NeedsGenericNever(aw, parts) == FALSE

\* the condition of the backfill loop
NeedsGeneric(aw, parts) == Len(aw) < PATTERN_AWARDS /\ parts # <<>>

\* the loop over patterns goes on: patterns left and fewer than 6 awards
InPatternLoop ==
    /\ pa_pc = "patterns"
    /\ pa_i < Len(pa_patterns)
    /\ Len(pa_awards) < PATTERN_AWARDS

\* one pass of the loop that turns the pattern into an award
TakePattern ==
    /\ InPatternLoop
    /\ LET person == pa_patterns[pa_i + 1] IN
           /\ awards_per_person[person] < max_per_person
           /\ pa_awards' = Append(pa_awards, [title |-> "pattern", recipient |-> person])
           /\ awards_per_person' = [awards_per_person EXCEPT ![person] = @ + 1]
    /\ pa_i' = pa_i + 1
    /\ UNCHANGED <<pa_patterns, pa_participants, pa_pc, notPattern>>

\* one pass of the loop that skips the pattern: its person has enough awards
SkipPattern ==
    /\ InPatternLoop
    /\ awards_per_person[pa_patterns[pa_i + 1]] >= max_per_person
    /\ pa_i' = pa_i + 1
    /\ UNCHANGED <<pa_patterns, pa_participants, pa_awards, awards_per_person, pa_pc,
                   notPattern>>

\* the loop over patterns ends: no pattern left, or the break at 6 awards
EndPatterns ==
    /\ pa_pc = "patterns"
    /\ ~InPatternLoop
    /\ pa_pc' = "generic"
    /\ UNCHANGED <<pa_patterns, pa_participants, pa_awards, awards_per_person, pa_i,
                   notPattern>>

\* one pass of the backfill loop
GenericAward ==
    /\ pa_pc = "generic"
    /\ NeedsGeneric(pa_awards, pa_participants)
    /\ LET min_person == MinPerson(pa_participants, awards_per_person) IN
           /\ pa_awards' = Append(pa_awards, [title |-> "Active Participant Award",
                                              recipient |-> min_person])
           /\ awards_per_person' = [awards_per_person EXCEPT ![min_person] = @ + 1]
    /\ UNCHANGED <<pa_patterns, pa_participants, pa_i, pa_pc, notPattern>>

\* return awards[:6]
ReturnPatternAwards ==
    /\ pa_pc = "generic"
    /\ ~NeedsGeneric(pa_awards, pa_participants)
    /\ pa_awards' = Prefix(pa_awards, PATTERN_AWARDS)
    /\ pa_pc' = "done"
    /\ UNCHANGED <<pa_patterns, pa_participants, awards_per_person, pa_i, notPattern>>

PatternInit ==
    /\ pa_patterns \in SeqsUpTo(People, MaxPatterns)
    /\ pa_participants \in ParticipantLists
    /\ pa_awards = <<>>
    /\ awards_per_person = [p \in People |-> 0]
    /\ pa_i = 0
    /\ pa_pc = "patterns"
    /\ ChunkIdle
    /\ GatherIdle
    /\ PipeIdle
    /\ AggIdle
    /\ FilterIdle
    /\ SynthIdle
    /\ ExtractIdle
    /\ PoolIdle
    /\ RunIdle

PatternNext ==
    \/ TakePattern
    \/ SkipPattern
    \/ EndPatterns
    \/ GenericAward
    \/ ReturnPatternAwards

SpecPatternAwards == PatternInit /\ [][PatternNext]_vars

(***************************************************************************)
(* Properties of _create_pattern_awards                                    *)
(***************************************************************************)
PatternAwardsReturned == pa_pc = "done"

\* the patterns of the list that name the person
PatternsOf(person) == Cardinality({i \in DOMAIN pa_patterns : pa_patterns[i] = person})

\* the patterns that qualify: for each person, the first max_per_person
QualifyingOf(person) ==
    IF PatternsOf(person) < max_per_person THEN PatternsOf(person) ELSE max_per_person

Qualifying == QualifyingOf("ann") + QualifyingOf("bob") + QualifyingOf("cat")

QualifyingUpTo6 == IF Qualifying < PATTERN_AWARDS THEN Qualifying ELSE PATTERN_AWARDS

AwardsTitled(title) == Cardinality({i \in DOMAIN pa_awards : pa_awards[i].title = title})

AwardsReceived(person) ==
    Cardinality({i \in DOMAIN pa_awards : pa_awards[i].recipient = person})

\* C19 as stated: the list returned holds min(6, qualifying patterns) awards.
PatternAwardsCountIsQualifying ==
    PatternAwardsReturned => Len(pa_awards) = QualifyingUpTo6

\* C19: the awards made from patterns number min(6, qualifying patterns);
\* the list returned holds 6 awards whenever there is a participant, generic
\* awards filling it up, and only the pattern awards when there is none.
PatternAwardsCount ==
    PatternAwardsReturned =>
        /\ AwardsTitled("pattern") = QualifyingUpTo6
        /\ Len(pa_awards) = IF pa_participants = <<>> THEN QualifyingUpTo6
                            ELSE PATTERN_AWARDS

\* fewer than 6 patterns qualify and the list returned holds 6 awards
FilledUpWitness ==
    /\ PatternAwardsReturned
    /\ Qualifying > 0
    /\ Qualifying < PATTERN_AWARDS
    /\ Len(pa_awards) = PATTERN_AWARDS
    /\ AwardsTitled("Active Participant Award") = PATTERN_AWARDS - Qualifying

\* C20: no person receives more than max_per_person of the awards, the
\* generic awards included.
NoPersonOverMaximum ==
    \A person \in People : AwardsReceived(person) <= max_per_person

(***************************************************************************)
(* gathering.py: gather_evidence_from_chunk with the error texts of        *)
(* provider.complete_json spelled out.  An error text is modelled by the   *)
(* message json.loads or the provider gives it and by whether the foreign  *)
(* text it embeds (the first 500 characters of the response, or the        *)
(* message of the API error) holds one of the words the retry looks for.   *)
(***************************************************************************)
INITIAL_MAX_TOKENS == 6144
RETRY_MAX_TOKENS == 8192

\* the response was cut off at the token limit
TruncatedCauses == {"cut in string", "cut between tokens", "cut in unicode escape"}

\* the response is complete and is not JSON
MalformedCauses == {"prose", "extra data", "control character"}

\* the API call itself failed
ApiCauses == {"network", "auth", "rate limit"}

\* the response parsed to something that is not a dict
ParseCauses == {"not a dict"}

FailureCauses == TruncatedCauses \cup MalformedCauses \cup ApiCauses \cup ParseCauses

\* the message of the exception _try_gather_evidence catches: that of
\* json.JSONDecodeError inside "Failed to parse JSON from LLM response",
\* that of the provider, or that of the AttributeError of data.get
ErrorMessage(cause) ==
    CASE cause = "cut in string" -> "Failed to parse JSON: Unterminated string starting at"
      [] cause = "cut between tokens" -> "Failed to parse JSON: Expecting ',' delimiter"
      [] cause = "cut in unicode escape" -> "Failed to parse JSON: Invalid \\uXXXX escape"
      [] cause = "prose" -> "Failed to parse JSON: Expecting value"
      [] cause = "extra data" -> "Failed to parse JSON: Extra data"
      [] cause = "control character" -> "Failed to parse JSON: Invalid control character at"
      [] cause = "network" -> "Anthropic API error"
      [] cause = "auth" -> "Invalid Anthropic API key"
      [] cause = "rate limit" -> "Rate limited by Anthropic API"
      [] cause = "not a dict" -> "'list' object has no attribute 'get'"

\* "Unterminated string" in message or "Expecting" in message
MessageHasMarker(message) ==
    message \in {"Failed to parse JSON: Unterminated string starting at",
                 "Failed to parse JSON: Expecting ',' delimiter",
                 "Failed to parse JSON: Expecting value"}

\* the causes whose error text embeds foreign text: the response content of
\* a JSON error, the upstream message of an API error
EmbedsText(cause) == cause \in TruncatedCauses \cup MalformedCauses \cup ApiCauses

\* _try_gather_evidence: the ChunkResult of one call
TryGather(call) ==
    IF call.cause = "ok"
    THEN [packet |-> TRUE, error |-> <<>>]
    ELSE [packet |-> FALSE,
          error |-> <<[message |-> ErrorMessage(call.cause), quoted |-> call.quoted]>>]

\* the retry made after every failure
RetryConditionAnyError(res) == res.error # <<>>

\* line 59: result.error and ("Unterminated string" in result.error or
\* "Expecting" in result.error)
RetryCondition(res) ==
    /\ res.error # <<>>
    /\ MessageHasMarker(res.error[1].message) \/ res.error[1].quoted

\* what one call of provider.complete_json can end in
CallsWith(max_tokens) ==
    {[max_tokens |-> max_tokens, cause |-> "ok", quoted |-> FALSE]}
    \cup {call \in [max_tokens : {max_tokens}, cause : FailureCauses, quoted : BOOLEAN] :
              call.quoted => EmbedsText(call.cause)}

\* lines 53-56: the first attempt
ExtractFirst ==
    /\ ex_pc = "call"
    /\ \E call \in CallsWith(INITIAL_MAX_TOKENS) :
           /\ ex_calls' = <<call>>
           /\ ex_result' = <<TryGather(call)>>
           /\ ex_pc' = IF RetryCondition(TryGather(call)) THEN "retry" ELSE "returned"
    /\ UNCHANGED notExtract

\* lines 59-63: the retry with the higher limit
ExtractRetry ==
    /\ ex_pc = "retry"
    /\ \E call \in CallsWith(RETRY_MAX_TOKENS) :
           /\ ex_calls' = Append(ex_calls, call)
           /\ ex_result' = <<TryGather(call)>>
    /\ ex_pc' = "returned"
    /\ UNCHANGED notExtract

ExtractInit ==
    /\ ex_calls = <<>>
    /\ ex_result = <<>>
    /\ ex_pc = "call"
    /\ ChunkIdle
    /\ GatherIdle
    /\ PipeIdle
    /\ AggIdle
    /\ FilterIdle
    /\ SynthIdle
    /\ PatternIdle
    /\ PoolIdle
    /\ RunIdle

ExtractNext == ExtractFirst \/ ExtractRetry

SpecExtract == ExtractInit /\ [][ExtractNext]_vars

(***************************************************************************)
(* Properties of gather_evidence_from_chunk                                *)
(***************************************************************************)
ExtractReturned == ex_pc = "returned"

\* C22: a second attempt is made, once and with the larger budget, exactly
\* when the first attempt failed because the response was truncated; every
\* failure is returned as an error value.
RetryIffTruncated ==
    ExtractReturned =>
        /\ Len(ex_calls) <= 2
        /\ ex_calls[1].max_tokens = INITIAL_MAX_TOKENS
        /\ Len(ex_calls) = 2 => ex_calls[2].max_tokens = RETRY_MAX_TOKENS
        /\ INITIAL_MAX_TOKENS < RETRY_MAX_TOKENS
        /\ (Len(ex_calls) = 2) <=> (ex_calls[1].cause \in TruncatedCauses)
        /\ ex_result[1].packet <=> ex_calls[Len(ex_calls)].cause = "ok"

(***************************************************************************)
(* gathering.py: _gather_parallel thread by thread.  The workers of the    *)
(* pool run process_chunk, which reaches provider._get_client through      *)
(* provider.complete_json; the main thread runs the as_completed loop.     *)
(* A write is recorded with the thread that made it, the object written    *)
(* and whether count_lock was held.                                        *)
(***************************************************************************)
\* the counters _gather_parallel keeps
Counters == {"total_input_tokens", "total_output_tokens", "completed_count"}

\* the main thread; the thread of a worker is named by the chunk it works on
MainThread == 0

Write(thread, target, locked) == [thread |-> thread, target |-> target, locked |-> locked]

Busy(i) == worker[i] \in {"get_client", "create", "request"}

\* ThreadPoolExecutor: a free worker takes the oldest submitted chunk and
\* enters process_chunk
WorkerStart(i) ==
    /\ main_pc = "loop"
    /\ worker[i] = "pending"
    /\ \A j \in 1..(i - 1) : worker[j] # "pending"
    /\ Cardinality({j \in DOMAIN worker : Busy(j)}) < pool_workers
    /\ worker' = [worker EXCEPT ![i] = "get_client"]
    /\ UNCHANGED <<pool_workers, provider_client, writes, pool_counts, main_pc, main_idx>>
    /\ UNCHANGED notPool

\* _get_client, line 43: the worker reads self._client
WorkerGetClient(i) ==
    /\ worker[i] = "get_client"
    /\ worker' = [worker EXCEPT ![i] = IF provider_client = 0 THEN "create" ELSE "request"]
    /\ UNCHANGED <<pool_workers, provider_client, writes, pool_counts, main_pc, main_idx>>
    /\ UNCHANGED notPool

\* _get_client, lines 44-59: the worker that read None makes a client and
\* assigns it to self._client
WorkerCreateClient(i) ==
    /\ worker[i] = "create"
    /\ provider_client' = i
    /\ worker' = [worker EXCEPT ![i] = "request"]
    /\ writes' = writes \cup {Write(i, "provider._client", FALSE)}
    /\ UNCHANGED <<pool_workers, pool_counts, main_pc, main_idx>>
    /\ UNCHANGED notPool

\* gather_evidence_from_chunk returns a ChunkResult, with a response or
\* with an error
WorkerRequest(i) ==
    /\ worker[i] = "request"
    /\ \E response \in BOOLEAN :
           worker' = [worker EXCEPT ![i] = IF response THEN "done" ELSE "failed"]
    /\ UNCHANGED <<pool_workers, provider_client, writes, pool_counts, main_pc, main_idx>>
    /\ UNCHANGED notPool

\* lines 188-212: one pass of the as_completed loop, in the main thread:
\* results[idx], the token totals under count_lock when there is a
\* response, completed_count and the progress call under count_lock
MainCollect(i) ==
    /\ main_pc = "loop"
    /\ worker[i] \in {"done", "failed"}
    /\ main_idx' = i
    /\ worker' = [worker EXCEPT ![i] = "collected"]
    /\ pool_counts' = [tokens |-> pool_counts.tokens + (IF worker[i] = "done" THEN 1 ELSE 0),
                       completed |-> pool_counts.completed + 1]
    /\ writes' = writes
                 \cup {Write(MainThread, "results", FALSE),
                       Write(MainThread, "completed_count", TRUE)}
                 \cup (IF worker[i] = "done"
                       THEN {Write(MainThread, "total_input_tokens", TRUE),
                             Write(MainThread, "total_output_tokens", TRUE)}
                       ELSE {})
    /\ UNCHANGED <<pool_workers, provider_client, main_pc>>
    /\ UNCHANGED notPool

\* the loop ends when every future was handed over
MainReturn ==
    /\ main_pc = "loop"
    /\ \A i \in DOMAIN worker : worker[i] = "collected"
    /\ main_pc' = "returned"
    /\ UNCHANGED <<pool_workers, worker, provider_client, writes, pool_counts, main_idx>>
    /\ UNCHANGED notPool

\* gather_all_evidence enters _gather_parallel with more than 3 chunks and a
\* provider that with_model has just built: its _client is None
PoolInit ==
    /\ pool_workers \in WorkerCounts
    /\ \E n \in (SEQUENTIAL_LIMIT + 1)..MaxChunks : worker = [i \in 1..n |-> "pending"]
    /\ provider_client = 0
    /\ writes = {}
    /\ pool_counts = [tokens |-> 0, completed |-> 0]
    /\ main_pc = "loop"
    /\ main_idx = 0
    /\ ChunkIdle
    /\ GatherIdle
    /\ PipeIdle
    /\ AggIdle
    /\ FilterIdle
    /\ SynthIdle
    /\ PatternIdle
    /\ ExtractIdle
    /\ RunIdle

PoolNext ==
    \/ \E i \in DOMAIN worker : WorkerStart(i)
    \/ \E i \in DOMAIN worker : WorkerGetClient(i)
    \/ \E i \in DOMAIN worker : WorkerCreateClient(i)
    \/ \E i \in DOMAIN worker : WorkerRequest(i)
    \/ \E i \in DOMAIN worker : MainCollect(i)
    \/ MainReturn

SpecPool == PoolInit /\ [][PoolNext]_vars

(***************************************************************************)
(* Properties of _gather_parallel                                          *)
(***************************************************************************)
WritersOf(target) == {w.thread : w \in {x \in writes : x.target = target}}

\* C24: nothing but the counters is written by more than one thread, every
\* write to a counter is made under count_lock, and no worker writes to the
\* provider.
OnlyCountersSharedAndLocked ==
    /\ \A w \in writes : Cardinality(WritersOf(w.target)) > 1 => w.target \in Counters
    /\ \A w \in writes : w.target \in Counters => w.locked
    /\ \A w \in writes : w.target = "provider._client" => w.thread = MainThread

(***************************************************************************)
(* orchestrator.py: the end-to-end call as seen from its progress callback *)
(* and its token totals.  The usage of a call is one unit when the call    *)
(* produced a response, input and output tokens moving together.  Next to  *)
(* the run in which the callback returns normally, run_shadow holds what   *)
(* the same run, with the same responses, ends in when the callback raises *)
(* at one of its invocations: from that invocation on no external call is  *)
(* made.  _generate_without_evidence is left out: no EvidenceError is      *)
(* raised anywhere.                                                        *)
(***************************************************************************)
\* PipelineStage, in the order of its declaration
StageRank(stage) ==
    CASE stage = "PATTERNS" -> 0
      [] stage = "CHUNKING" -> 1
      [] stage = "EVIDENCE" -> 2
      [] stage = "SYNTHESIS" -> 3
      [] stage = "COMPLETE" -> 4

\* the stage a handler of generate_unwrapped_with_fallback reports
HandlerStage == "PATTERNS"

\* chunk_progress reporting the chunking stage
ChunkProgressStageChunking == "CHUNKING"

\* the stage chunk_progress reports, line 147
ChunkProgressStage == "EVIDENCE"

\* the result generate_unwrapped_offline returns, with the error a handler sets
OfflineResult(error) ==
    [awards |-> "pattern_awards", model_used |-> "offline", error |-> error,
     tokens |-> 0, raised |-> FALSE]

\* the exception of the callback leaves generate_unwrapped_with_fallback:
\* the _progress call is outside the try (line 314) or inside an except
\* clause (lines 331, 344)
CallbackRaisesThrough ==
    [awards |-> "none", model_used |-> "none", error |-> "none", tokens |-> 0,
     raised |-> TRUE]

\* the exception of the callback leaves generate_unwrapped and is caught by
\* `except Exception`, lines 348-353
CallbackCaught == OfflineResult("Unexpected error")

\* _progress(stage, ...): the callback is invoked with the stage; on_raise
\* is what the call ends in when this invocation raises
Emit(stage, on_raise) ==
    /\ run_events' = Append(run_events, stage)
    /\ \/ run_shadow' = run_shadow
       \/ /\ run_shadow = <<>>
          /\ run_shadow' = <<on_raise>>

\* one unit of usage for a call that produced a response: a provider error
\* of the API produced none
Usage(outcome) == IF outcome = "error" THEN 0 ELSE 1

\* what _gather_sequential / _gather_parallel add to the totals for a chunk:
\* the usage of the response of the ChunkResult returned, the last attempt's
ExtractionCounted(outcome1, outcome2) ==
    IF outcome1 = "truncated" THEN (IF outcome2 = "ok" THEN 1 ELSE 0)
    ELSE IF outcome1 = "ok" THEN 1 ELSE 0

\* the usage of the calls gather_evidence_from_chunk made
ExtractionUsage(outcome1, outcome2) ==
    Usage(outcome1) + (IF outcome1 = "truncated" THEN Usage(outcome2) ELSE 0)

\* lines 299-315: offline mode on request or without a key, else the pipeline
RunEnter ==
    /\ run_pc = "call"
    /\ IF run_offline
       THEN /\ run_result' = <<OfflineResult("none")>>
            /\ run_pc' = "done"
            /\ UNCHANGED <<run_events, run_shadow>>
       ELSE IF ~run_key
       THEN /\ Emit(HandlerStage, CallbackRaisesThrough)
            /\ run_result' = <<OfflineResult("none")>>
            /\ run_pc' = "done"
       ELSE /\ run_pc' = "patterns"
            /\ UNCHANGED <<run_events, run_shadow, run_result>>
    /\ UNCHANGED <<run_offline, run_key, run_n, run_i, run_items, run_attempt,
                   run_usage, run_counted, run_synth>>
    /\ UNCHANGED notRun

\* generate_unwrapped, lines 108-131: pattern detection and the providers
RunPatterns ==
    /\ run_pc = "patterns"
    /\ Emit("PATTERNS", CallbackCaught)
    /\ run_pc' = "chunking"
    /\ UNCHANGED <<run_offline, run_key, run_n, run_i, run_items, run_attempt,
                   run_usage, run_counted, run_synth, run_result>>
    /\ UNCHANGED notRun

\* lines 133-143: chunking
RunChunking ==
    /\ run_pc = "chunking"
    /\ Emit("CHUNKING", CallbackCaught)
    /\ run_pc' = "evidence"
    /\ UNCHANGED <<run_offline, run_key, run_n, run_i, run_items, run_attempt,
                   run_usage, run_counted, run_synth, run_result>>
    /\ UNCHANGED notRun

\* line 144: the evidence stage is announced
RunEvidenceStart ==
    /\ run_pc = "evidence"
    /\ Emit("EVIDENCE", CallbackCaught)
    /\ run_pc' = "chunks"
    /\ UNCHANGED <<run_offline, run_key, run_n, run_i, run_items, run_attempt,
                   run_usage, run_counted, run_synth, run_result>>
    /\ UNCHANGED notRun

\* gather_all_evidence: the extraction of the next chunk returns, its
\* tokens are added, chunk_progress is called
RunChunk ==
    /\ run_pc = "chunks"
    /\ run_i < run_n
    /\ \E outcome1 \in CallOutcomes, outcome2 \in CallOutcomes, data \in ResponseData :
           LET ok == ExtractionCounted(outcome1, outcome2) = 1 IN
               /\ run_usage' = run_usage + ExtractionUsage(outcome1, outcome2)
               /\ run_counted' = run_counted + ExtractionCounted(outcome1, outcome2)
               /\ run_items' = IF run_items = -1 \/ (ok /\ ~data.typed) THEN -1
                               ELSE IF ok THEN run_items + data.items
                               ELSE run_items
    /\ Emit(ChunkProgressStage, CallbackCaught)
    /\ run_i' = run_i + 1
    /\ UNCHANGED <<run_offline, run_key, run_n, run_attempt, run_synth, run_result, run_pc>>
    /\ UNCHANGED notRun

\* lines 168-175: aggregate_evidence, which raises on a wrongly typed field
\* (the last handler then returns the offline result), and the
\* announcement of the quality filter
RunAggregate ==
    /\ run_pc = "chunks"
    /\ run_i = run_n
    /\ IF run_items = -1
       THEN /\ run_result' = <<OfflineResult("Unexpected error")>>
            /\ run_pc' = "done"
            /\ UNCHANGED <<run_events, run_shadow>>
       ELSE /\ Emit("EVIDENCE", CallbackCaught)
            /\ run_pc' = IF run_items < MIN_FILTER_ITEMS THEN "synthesis_stage"
                         ELSE "filter_full"
            /\ run_result' = run_result
    /\ UNCHANGED <<run_offline, run_key, run_n, run_i, run_items, run_attempt,
                   run_usage, run_counted, run_synth>>
    /\ UNCHANGED notRun

\* filter_evidence_by_quality, lines 172-189: the tokens of the response are
\* added after complete_json has returned
RunFilterFull ==
    /\ run_pc = "filter_full"
    /\ \E outcome \in CallOutcomes :
           /\ run_usage' = run_usage + Usage(outcome)
           /\ run_counted' = run_counted + (IF outcome = "ok" THEN 1 ELSE 0)
           /\ run_pc' = IF outcome = "ok" THEN "synthesis_stage" ELSE "filter_index"
    /\ UNCHANGED <<run_offline, run_key, run_n, run_i, run_items, run_attempt,
                   run_events, run_synth, run_result, run_shadow>>
    /\ UNCHANGED notRun

\* filter_evidence_by_quality, lines 191-208
RunFilterIndex ==
    /\ run_pc = "filter_index"
    /\ \E outcome \in CallOutcomes :
           /\ run_usage' = run_usage + Usage(outcome)
           /\ run_counted' = run_counted + (IF outcome = "ok" THEN 1 ELSE 0)
    /\ run_pc' = "synthesis_stage"
    /\ UNCHANGED <<run_offline, run_key, run_n, run_i, run_items, run_attempt,
                   run_events, run_synth, run_result, run_shadow>>
    /\ UNCHANGED notRun

\* line 186: the synthesis stage is announced
RunSynthesisStage ==
    /\ run_pc = "synthesis_stage"
    /\ Emit("SYNTHESIS", CallbackCaught)
    /\ run_pc' = "synthesis"
    /\ UNCHANGED <<run_offline, run_key, run_n, run_i, run_items, run_attempt,
                   run_usage, run_counted, run_synth, run_result>>
    /\ UNCHANGED notRun

\* generate_awards, lines 39-87: one pass of the loop; the tokens of a
\* response are added to the totals of generate_awards, which reach
\* generate_unwrapped only when generate_awards returns
RunSynthesis ==
    /\ run_pc = "synthesis"
    /\ \E outcome \in SynthesisOutcomes :
           LET step == GenerateAwardsStep(run_attempt, outcome)
               synth == run_synth + Usage(outcome)
           IN  /\ run_usage' = run_usage + Usage(outcome)
               /\ run_synth' = synth
               /\ run_attempt' = IF step = "retry" THEN run_attempt + 1 ELSE run_attempt
               /\ run_counted' = IF step = "return" THEN run_counted + synth
                                 ELSE run_counted
               /\ run_pc' = IF step = "retry" THEN "synthesis"
                            ELSE IF step = "return" THEN "complete" ELSE "handler"
    /\ UNCHANGED <<run_offline, run_key, run_n, run_i, run_items, run_events,
                   run_result, run_shadow>>
    /\ UNCHANGED notRun

\* lines 213-228: the last progress call and the result
RunComplete ==
    /\ run_pc = "complete"
    /\ Emit("COMPLETE", CallbackCaught)
    /\ run_result' = <<[awards |-> "synthesis_awards", model_used |-> "full",
                        error |-> "none", tokens |-> run_counted, raised |-> FALSE]>>
    /\ run_pc' = "done"
    /\ UNCHANGED <<run_offline, run_key, run_n, run_i, run_items, run_attempt,
                   run_usage, run_counted, run_synth>>
    /\ UNCHANGED notRun

\* lines 341-347: the handler of SynthesisError
RunSynthesisHandler ==
    /\ run_pc = "handler"
    /\ Emit(HandlerStage, CallbackRaisesThrough)
    /\ run_result' = <<OfflineResult("Synthesis failed")>>
    /\ run_pc' = "done"
    /\ UNCHANGED <<run_offline, run_key, run_n, run_i, run_items, run_attempt,
                   run_usage, run_counted, run_synth>>
    /\ UNCHANGED notRun

RunInit ==
    /\ run_offline \in BOOLEAN
    /\ run_key \in BOOLEAN
    /\ run_n \in 0..MaxSegments
    /\ run_i = 0
    /\ run_items = 0
    /\ run_attempt = 0
    /\ run_events = <<>>
    /\ run_usage = 0
    /\ run_counted = 0
    /\ run_synth = 0
    /\ run_result = <<>>
    /\ run_shadow = <<>>
    /\ run_pc = "call"
    /\ ChunkIdle
    /\ GatherIdle
    /\ PipeIdle
    /\ AggIdle
    /\ FilterIdle
    /\ SynthIdle
    /\ PatternIdle
    /\ ExtractIdle
    /\ PoolIdle

RunNext ==
    \/ RunEnter
    \/ RunPatterns
    \/ RunChunking
    \/ RunEvidenceStart
    \/ RunChunk
    \/ RunAggregate
    \/ RunFilterFull
    \/ RunFilterIndex
    \/ RunSynthesisStage
    \/ RunSynthesis
    \/ RunComplete
    \/ RunSynthesisHandler

SpecRun == RunInit /\ [][RunNext]_vars

(***************************************************************************)
(* Properties of the progress events and the token totals                  *)
(***************************************************************************)
RunFinished == run_pc = "done" /\ run_result # <<>>

\* C26 as stated: the stages of the events never move backwards.
StagesNeverMoveBack ==
    \A k \in 1..(Len(run_events) - 1) :
        StageRank(run_events[k]) <= StageRank(run_events[k + 1])

\* C26: the stages of the events generate_unwrapped delivers never move
\* backwards; the one event that does is the last of a run that falls back
\* to pattern-only mode after a synthesis failure: its handler reports
\* PATTERNS after SYNTHESIS, and no COMPLETE event follows.
StagesMoveBackOnlyInFallback ==
    \A k \in 1..(Len(run_events) - 1) :
        \/ StageRank(run_events[k]) <= StageRank(run_events[k + 1])
        \/ /\ k + 1 = Len(run_events)
           /\ run_events[k] = "SYNTHESIS"
           /\ run_events[k + 1] = "PATTERNS"
           /\ RunFinished
           /\ run_result[1].model_used = "offline"
           /\ run_result[1].error = "Synthesis failed"

\* C26 witness: a run went through every stage up to SYNTHESIS and fell back
SteppedBackWitness ==
    /\ RunFinished
    /\ run_n >= 2
    /\ Len(run_events) >= 2
    /\ run_events[Len(run_events)] = "PATTERNS"
    /\ run_events[Len(run_events) - 1] = "SYNTHESIS"

\* C28: the token total of the result is the usage of every call of the run
\* that produced a response.
TokensAreTotalUsage ==
    RunFinished => run_result[1].tokens = run_usage

\* C30: a callback that raises at one of its invocations changes neither
\* the awards, nor the backend identifier, nor the error of the result, and
\* the call still returns.
CallbackFailureChangesNothing ==
    (RunFinished /\ run_shadow # <<>>) =>
        /\ ~run_shadow[1].raised
        /\ run_shadow[1].awards = run_result[1].awards
        /\ run_shadow[1].model_used = run_result[1].model_used
        /\ run_shadow[1].error = run_result[1].error

(***************************************************************************)
(* The synthesis prompt against the validator                              *)
(***************************************************************************)
\* build_synthesis_prompt, requirements of "Your Task": what a list of awards
\* has to be to follow the prompt
MeetsPrompt(aw, parts) ==
    /\ Len(aw) = PROMPT_AWARDS
    /\ \A j \in DOMAIN aw : Recognised(aw[j].recipient, parts)
    /\ \A who \in parts :
          LET got == Cardinality({j \in DOMAIN aw : aw[j].recipient.who = who})
          IN  got >= PROMPT_MIN_PER_PERSON /\ got <= PROMPT_MAX_PER_PERSON
    /\ \A j \in DOMAIN aw : HasSpecificEvidence(aw[j].evidence)
    /\ \A j \in DOMAIN aw : aw[j].quip_words <= PROMPT_QUIP_WORDS

FirstResponseMeetsPrompt ==
    /\ ga_passes # <<>>
    /\ ga_passes[1].parsed # <<>>
    /\ MeetsPrompt(ga_passes[1].parsed[1], participants)

\* C27: a first response that holds exactly the number of awards the prompt
\* asks for and meets the balance, specificity and quip requirements of the
\* prompt has no count issue, passes validation and is returned by the first
\* pass, without a retry.
PromptFollowedIsAccepted ==
    FirstResponseMeetsPrompt =>
        /\ \A issue \in GetIssues(ga_passes[1].parsed[1], participants) : issue[1] # "count"
        /\ ga_passes[1].outcome = "valid"
        /\ Len(ga_passes) = 1
        /\ ga_returned = ga_passes[1].parsed

====
